---- MODULE Spec2Model ----
(***************************************************************************)
(* Model of the per-user conversational session state machine of the bot   *)
(* (src/bot.py) together with the helpers it calls (src/utils.py,          *)
(* src/features_file.py, src/storage.py, src/config.py).                   *)
(*                                                                         *)
(* Handlers are coroutines: the dispatcher started by main() runs every    *)
(* update in a task of its own, so a handler runs atomically between two   *)
(* awaits and other handlers may run while it is suspended.  A handler     *)
(* whose awaits all follow its last access to the shared maps is one       *)
(* action; a handler that awaits a download, a background operation or a   *)
(* delivery is a task with a position (pc), one action per such await.  A  *)
(* working notice ("Downloading...", "Zipping...") is awaited with no      *)
(* access to the shared maps before the next await, so it is taken         *)
(* together with the await that follows it; its failure is the failure of  *)
(* that await.                                                             *)
(*                                                                         *)
(* Strings are sequences of one-character strings, so that the string      *)
(* functions (strip, lower, suffix, safe_filename) are computed.           *)
(***************************************************************************)
EXTENDS Integers, Sequences, FiniteSets, Bags, TLC

VARIABLES USER_STATE, USER_PROXY, MERGE_BUCKET, IMG_BUCKET,
          tasks, files, downloaded, nevents, last,
          disk,      \* the content of each downloaded file on disk
          accepted,  \* per flow and user, the contents of the documents
                     \* acknowledged for the list the bucket holds
          environ    \* os.environ of the process: the value of HTTP_PROXY and
                     \* HTTPS_PROXY, a set of at most one proxy

vars == <<USER_STATE, USER_PROXY, MERGE_BUCKET, IMG_BUCKET,
          tasks, files, downloaded, nevents, last, disk, accepted, environ>>

maps == <<USER_STATE, USER_PROXY, MERGE_BUCKET, IMG_BUCKET>>

(***************************************************************************)
(* Bounds of the model.                                                    *)
(***************************************************************************)
\* user identifiers sending updates
Users == {1, 2}
\* updates delivered in one behaviour
MaxEvents == 4
\* handlers suspended at an await at the same time
MaxTasks == 2

(***************************************************************************)
(* Program constants.                                                      *)
(***************************************************************************)
max_telegram_file_mb == 1900
max_text_len == 200000
MaxNameLen == 180
max_bytes == max_telegram_file_mb * 1024 * 1024

None == "None"

(***************************************************************************)
(* Strings.                                                                *)
(***************************************************************************)
\* str -> sequence of characters, for the literals of the model
S(str) ==
    CASE str = "a"       -> <<"a">>
      [] str = "."       -> <<".">>
      [] str = ""        -> <<>>
      [] str = "a.pdf"   -> <<"a", ".", "p", "d", "f">>
      [] str = "b.pdf"   -> <<"b", ".", "p", "d", "f">>
      [] str = "B.PDF"   -> <<"B", ".", "P", "D", "F">>
      [] str = "i.png"   -> <<"i", ".", "p", "n", "g">>
      [] str = "c/d"     -> <<"c", "/", "d">>
      [] str = " c "     -> <<" ", "c", " ">>
      [] str = ".zip"    -> <<".", "z", "i", "p">>
      [] str = "a.zip"   -> <<"a", ".", "z", "i", "p">>
      [] str = "b.zip"   -> <<"b", ".", "z", "i", "p">>
      [] str = "_unzipped.zip" -> <<"_", "u", "n", "z", "i", "p", "p", "e", "d",
                                    ".", "z", "i", "p">>
      [] str = ".pdf"    -> <<".", "p", "d", "f">>
      [] str = ".png"    -> <<".", "p", "n", "g">>
      [] str = "merged.pdf" -> <<"m", "e", "r", "g", "e", "d", ".", "p", "d", "f">>
      [] str = "images.pdf" -> <<"i", "m", "a", "g", "e", "s", ".", "p", "d", "f">>
      [] str = "text.pdf"   -> <<"t", "e", "x", "t", ".", "p", "d", "f">>
      [] str = "file.bin"   -> <<"f", "i", "l", "e", ".", "b", "i", "n">>
      [] str = "youtube_playlist.zip" ->
            <<"y", "o", "u", "t", "u", "b", "e", "_", "p", "l", "a", "y", "l",
              "i", "s", "t", ".", "z", "i", "p">>
      [] str = "WWW." ->
            <<"W", "W", "W", ".">>
      [] str = "youtu.be" ->
            <<"y", "o", "u", "t", "u", ".", "b", "e">>
      [] str = "example.com" ->
            <<"e", "x", "a", "m", "p", "l", "e", ".", "c", "o", "m">>
      [] str = "PIXELDRAIN.COM" ->
            <<"P", "I", "X", "E", "L", "D", "R", "A", "I", "N", ".", "C", "O", "M">>
      [] str = "Drive.Google.Com" ->
            <<"D", "r", "i", "v", "e", ".", "G", "o", "o", "g", "l", "e", ".", "C", "o", "m">>
      [] str = "MEGA.NZ" ->
            <<"M", "E", "G", "A", ".", "N", "Z">>
      [] str = "YouTu.be" ->
            <<"Y", "o", "u", "T", "u", ".", "b", "e">>
      [] str = "HTTPS://" ->
            <<"H", "T", "T", "P", "S", ":", "/", "/">>
      [] str = "/file/xyz" ->
            <<"/", "f", "i", "l", "e", "/", "x", "y", "z">>
      [] str = "/abc123" ->
            <<"/", "a", "b", "c", "1", "2", "3">>
      [] str = "/file" ->
            <<"/", "f", "i", "l", "e">>
      [] str = "/?u=mega.nz" ->
            <<"/", "?", "u", "=", "m", "e", "g", "a", ".", "n", "z">>
      [] str = "/drive.google.com" ->
            <<"/", "d", "r", "i", "v", "e", ".", "g", "o", "o", "g", "l", "e", ".", "c", "o", "m">>
      [] str = "/pixeldrain.com" ->
            <<"/", "p", "i", "x", "e", "l", "d", "r", "a", "i", "n", ".", "c", "o", "m">>
      [] str = "/youtu" ->
            <<"/", "y", "o", "u", "t", "u">>
      [] str = "https://mega.nz/file/xyz" ->
            <<"h", "t", "t", "p", "s", ":", "/", "/", "m", "e", "g", "a", ".", "n", "z", "/", "f", "i", "l", "e", "/", "x", "y", "z">>
      [] str = "https://example.com/file" ->
            <<"h", "t", "t", "p", "s", ":", "/", "/", "e", "x", "a", "m", "p", "l", "e", ".", "c", "o", "m", "/", "f", "i", "l", "e">>
      [] str = "http://"   -> <<"h", "t", "t", "p", ":", "/", "/">>
      [] str = "https://"  -> <<"h", "t", "t", "p", "s", ":", "/", "/">>
      [] str = "socks5://" -> <<"s", "o", "c", "k", "s", "5", ":", "/", "/">>
      [] str = "HTTP://p"  -> <<"H", "T", "T", "P", ":", "/", "/", "p">>
      [] str = "ftp://x"   -> <<"f", "t", "p", ":", "/", "/", "x">>
      [] str = "https://youtu.be/abc123" ->
            <<"h", "t", "t", "p", "s", ":", "/", "/", "y", "o", "u", "t", "u",
              ".", "b", "e", "/", "a", "b", "c", "1", "2", "3">>
      [] str = "pixeldrain.com" ->
            <<"p", "i", "x", "e", "l", "d", "r", "a", "i", "n", ".", "c", "o", "m">>
      [] str = "drive.google.com" ->
            <<"d", "r", "i", "v", "e", ".", "g", "o", "o", "g", "l", "e", ".",
              "c", "o", "m">>
      [] str = "mega.nz"     -> <<"m", "e", "g", "a", ".", "n", "z">>
      [] str = "youtu"       -> <<"y", "o", "u", "t", "u">>
      [] str = "youtube.com" -> <<"y", "o", "u", "t", "u", "b", "e", ".", "c", "o", "m">>

\* characters that have no escape in a TLA+ string, each as one token:
\* U+0000, U+000B, U+001C, U+007F, U+0085 and U+00A0
NUL == "\\x00"
VT == "\\x0b"
FS == "\\x1c"
DEL == "\\x7f"
NEL == "\\x85"
NBSP == "\\xa0"

\* characters str.strip() removes and the pattern \s matches (str.isspace)
Whitespace == {" ", "\n", "\t", "\r", "\f", VT, FS, NEL, NBSP}

\* the characters of the class [<>:"/\\|?*\x00-\x1F] of safe_filename
Illegal == {"<", ">", ":", "\"", "/", "\\", "|", "?", "*", "\n", "\t", "\r", "\f",
            NUL, VT, FS}

UpperToLower == [A |-> "a", B |-> "b", C |-> "c", D |-> "d", E |-> "e", F |-> "f",
                 G |-> "g", H |-> "h", I |-> "i", J |-> "j", K |-> "k", L |-> "l",
                 M |-> "m", N |-> "n", O |-> "o", P |-> "p", Q |-> "q", R |-> "r",
                 S |-> "s", T |-> "t", U |-> "u", V |-> "v", W |-> "w", X |-> "x",
                 Y |-> "y", Z |-> "z"]

\* str.lower()
Lower(s) == [k \in 1..Len(s) |->
                IF s[k] \in DOMAIN UpperToLower THEN UpperToLower[s[k]] ELSE s[k]]

RECURSIVE LStrip(_)
LStrip(s) == IF s # <<>> /\ s[1] \in Whitespace THEN LStrip(Tail(s)) ELSE s

RECURSIVE RStrip(_)
RStrip(s) == IF s # <<>> /\ s[Len(s)] \in Whitespace
             THEN RStrip(SubSeq(s, 1, Len(s) - 1)) ELSE s

\* str.strip()
Strip(s) == RStrip(LStrip(s))

\* str.replace(a, b) for single characters, and re.sub of a character class
ReplaceIn(s, class, c) == [k \in 1..Len(s) |-> IF s[k] \in class THEN c ELSE s[k]]

\* re.sub(r"\s+", " ", s): every run of whitespace becomes one space, so the
\* characters kept are the others and the first of each run
CollapseWs(s) ==
    LET marked == [k \in 1..Len(s) |->
                     [c |-> IF s[k] \in Whitespace THEN " " ELSE s[k],
                      drop |-> s[k] \in Whitespace /\ k > 1 /\ s[k - 1] \in Whitespace]]
        kept == SelectSeq(marked, LAMBDA m : ~m.drop)
    IN  [j \in 1..Len(kept) |-> kept[j].c]

StartsWith(s, p) == Len(s) >= Len(p) /\ SubSeq(s, 1, Len(p)) = p

\* sub in s
Contains(s, sub) == \E k \in 0..(Len(s) - Len(sub)) : SubSeq(s, k + 1, k + Len(sub)) = sub

\* utils.safe_filename
safe_filename(name) ==
    LET n1 == ReplaceIn(Strip(name), {"\n"}, " ")
        n2 == ReplaceIn(n1, Illegal, "_")
        n3 == CollapseWs(n2)
    IN  IF Len(n3) > MaxNameLen THEN SubSeq(n3, 1, MaxNameLen) ELSE n3

\* the final component of a path string (pathlib: PurePath(s).name)
RECURSIVE LastComponent(_)
LastComponent(s) ==
    LET slashes == {k \in 1..Len(s) : s[k] = "/"}
    IN  IF slashes = {} THEN (IF s = <<".">> THEN <<>> ELSE s)
        ELSE LET k == CHOOSE x \in slashes : \A y \in slashes : y <= x
                 tl == SubSeq(s, k + 1, Len(s))
             IN  IF tl = <<>> \/ tl = <<".">>
                 THEN LastComponent(SubSeq(s, 1, k - 1))
                 ELSE tl

\* the index of the dot that starts the suffix of a file name, 0 when none
SuffixDot(name) ==
    LET dots == {k \in 1..Len(name) : name[k] = "."}
        k == IF dots = {} THEN 0 ELSE CHOOSE x \in dots : \A y \in dots : y <= x
    IN  IF 1 < k /\ k < Len(name) THEN k ELSE 0

\* pathlib: PurePath(s).suffix and PurePath(s).stem
Suffix(s) == LET n == LastComponent(s) k == SuffixDot(n)
             IN  IF k = 0 THEN <<>> ELSE SubSeq(n, k, Len(n))
Stem(s) == LET n == LastComponent(s) k == SuffixDot(n)
           IN  IF k = 0 THEN n ELSE SubSeq(n, 1, k - 1)

\* utils.detect_content_type_from_name, the kind component
detect_content_type_from_name(name) ==
    LET ext == Suffix(Strip(Lower(name)))
    IN  IF ext = S(".pdf") THEN "pdf"
        ELSE IF ext = S(".zip") THEN "zip"
        ELSE IF ext \in {<<".", "j", "p", "g">>, <<".", "j", "p", "e", "g">>,
                         <<".", "p", "n", "g">>, <<".", "w", "e", "b", "p">>,
                         <<".", "b", "m", "p">>, <<".", "t", "i", "f", "f">>}
             THEN "image"
        ELSE IF ext \in {<<".", "t", "x", "t">>, <<".", "l", "o", "g">>,
                         <<".", "m", "d">>, <<".", "c", "s", "v">>}
             THEN "text"
        ELSE "unknown"

\* a faulty variant of PROXY_RE_match: the re.I flag is missing
PROXY_RE_match_mutant(p) ==
    StartsWith(p, S("http://")) \/ StartsWith(p, S("https://"))
    \/ StartsWith(p, S("socks5://"))

\* bot.PROXY_RE.match: ^(http|https|socks5):// , re.I
PROXY_RE_match(p) ==
    LET l == Lower(p)
    IN  StartsWith(l, S("http://")) \/ StartsWith(l, S("https://"))
        \/ StartsWith(l, S("socks5://"))

(***************************************************************************)
(* Python dicts: a dict is a function whose domain is its set of keys.     *)
(***************************************************************************)
EmptyDict == <<>>
\* a faulty variant of Put: the entries of the other keys are lost
Put_mutant(d, k, v) == [x \in {k} |-> v]

\* d[k] = v
Put(d, k, v) == [x \in (DOMAIN d) \cup {k} |-> IF x = k THEN v ELSE d[x]]
\* a faulty variant of Pop: the key is kept
Pop_mutant(d, k) == d

Pop(d, k) == [x \in (DOMAIN d) \ {k} |-> d[x]]
Get(d, k, default) == IF k \in DOMAIN d THEN d[k] ELSE default

\* a faulty variant of set_state: the fields of the earlier state that the
\* new state does not set are kept
set_state_mutant(user_id, menu, action, extra) ==
    LET base == [menu |-> menu, action |-> action]
        old == Get(USER_STATE, user_id, EmptyDict)
        st == [k \in {"menu", "action"} \cup DOMAIN extra \cup DOMAIN old |->
                  IF k \in DOMAIN extra THEN extra[k]
                  ELSE IF k \in DOMAIN base THEN base[k] ELSE old[k]]
    IN  Put(USER_STATE, user_id, st)

\* bot.set_state: the new USER_STATE; extra is a dict, EmptyDict when not given
set_state(user_id, menu, action, extra) ==
    LET base == [menu |-> menu, action |-> action]
        st == [k \in {"menu", "action"} \cup DOMAIN extra |->
                  IF k \in DOMAIN extra THEN extra[k] ELSE base[k]]
    IN  Put(USER_STATE, user_id, st)

\* bot.get_state
get_state(user_id) == Get(USER_STATE, user_id, [menu |-> "main", action |-> None])

\* bot.user_proxy: the Optional[str] as a set of at most one proxy
user_proxy(user_id) == IF user_id \in DOMAIN USER_PROXY THEN {USER_PROXY[user_id]} ELSE {}

\* storage.work_dir / downloads_dir / output_dir joined with a file name
work_path(user_id, name) == <<user_id, "work", name>>
downloads_path(user_id, name) == <<user_id, "downloads", name>>
output_path(user_id, name) == <<user_id, "output", name>>

\* storage.cleanup_old: the files left when the user directories in old are
\* the ones whose modification time is before the cutoff
cleanup_old(old) == {p \in files : p[1] \notin old}

(***************************************************************************)
(* File contents: the bytes of a plain file, or the members (relative path *)
(* -> content) a ZIP archive or a directory holds.                         *)
(***************************************************************************)
Plain(data) == [kind |-> "file", data |-> data, members |-> EmptyDict]
Archive(members) == [kind |-> "zip", data |-> "", members |-> members]
Dir(members) == [kind |-> "dir", data |-> "", members |-> members]

\* utils.is_zip
is_zip(path) == path \in DOMAIN disk /\ disk[path].kind = "zip"

\* utils.zip_paths, the entries one path contributes: the files below a
\* directory under arcname relative_to(p.parent), a file under arcname p.name
zip_entries(p) ==
    IF disk[p].kind = "dir"
    THEN [a \in {<<p[3]>> \o r : r \in DOMAIN disk[p].members}
            |-> disk[p].members[Tail(a)]]
    ELSE [a \in {<<p[3]>>} |-> disk[p]]

\* utils.zip_paths: the archive written for the list paths
zip_paths(paths) ==
    LET has(a) == {k \in 1..Len(paths) : a \in DOMAIN zip_entries(paths[k])}
        names == UNION {DOMAIN zip_entries(paths[k]) : k \in 1..Len(paths)}
    IN  Archive([a \in names |->
                   zip_entries(paths[CHOOSE k \in has(a) : \A j \in has(a) : j <= k])[a]])

\* utils.unzip_to_dir: the directory out_dir after zf.extractall(out_dir),
\* which adds the members to what the directory already holds
unzip_to_dir(zip_path, out_dir) ==
    LET old == IF out_dir \in DOMAIN disk THEN disk[out_dir].members ELSE EmptyDict
        new == disk[zip_path].members
    IN  Dir([a \in DOMAIN old \cup DOMAIN new |->
               IF a \in DOMAIN new THEN new[a] ELSE old[a]])

(***************************************************************************)
(* Inputs.                                                                 *)
(***************************************************************************)
\* documents: file name, the size the transport reports (0: not reported)
\* and the content of the file; a.zip is what the zip flow sends for a.pdf
Docs == {[name |-> S("a.pdf"), size |-> 1, content |-> Plain("A")],
         [name |-> S("b.pdf"), size |-> max_bytes, content |-> Plain("B")],
         [name |-> S("i.png"), size |-> 0, content |-> Plain("I")],
         [name |-> S("a.zip"), size |-> 1,
          content |-> Archive([a \in {<<S("a.pdf")>>} |-> Plain("A")])],
         [name |-> S("a.pdf"), size |-> max_bytes + 1, content |-> Plain("A")],
         [name |-> S("i.png"), size |-> max_bytes + 1, content |-> Plain("I")]}

\* texts of text messages
Texts == {S("a.pdf"), S("c/d"), S("."), S("HTTP://p"), S("https://youtu.be/abc123")}

\* a message carries a document, a text, or neither (a photo, a sticker)
Msgs == {[kind |-> "doc", name |-> d.name, size |-> d.size,
          content |-> d.content] : d \in Docs}
        \cup {[kind |-> "text", text |-> t] : t \in Texts}
        \cup {[kind |-> "other"]}

HasDoc(msg) == msg.kind = "doc"
\* (message.text or "")
TextOrEmpty(msg) == IF msg.kind = "text" THEN msg.text ELSE <<>>
\* message.document.file_name or "file.bin"
FileName(msg) == IF msg.name = <<>> THEN S("file.bin") ELSE msg.name

(***************************************************************************)
(* Tasks: the handlers suspended at an await, a bag of records.            *)
(***************************************************************************)
HasFree == BagCardinality(tasks) < MaxTasks
Running == BagToSet(tasks)
Spawn(t) == tasks (+) SetToBag({t})
Finish(t) == tasks (-) SetToBag({t})
Move(t, t2) == (tasks (-) SetToBag({t})) (+) SetToBag({t2})
At(t, flow, pc) == t.flow = flow /\ t.pc = pc

\* the number of background operations (run_blocking) in flight for a user
OpsInFlight(u) ==
    LET ops == {t \in Running : t.u = u /\ t.pc \in {"op", "op2"}}
    IN  BagCardinality([t \in ops |-> CopiesIn(t, tasks)])

Step(u, ev, res) == [u |-> u, ev |-> ev, res |-> res]

\* another update can be delivered within the bound; every handler of an update
\* starts with it, so that nothing else is computed once the bound is reached
CanDeliver == nevents < MaxEvents

\* an update is taken from the transport and its handler runs to its first await
Event(u, ev, res) == /\ CanDeliver
                     /\ nevents' = nevents + 1
                     /\ last' = Step(u, ev, res)

\* a suspended handler resumes: no new update is consumed
Resume(u, ev, res) == /\ last' = Step(u, ev, res)
                      /\ UNCHANGED nevents

Init ==
    /\ USER_STATE = EmptyDict
    /\ USER_PROXY = EmptyDict
    /\ MERGE_BUCKET = EmptyDict
    /\ IMG_BUCKET = EmptyDict
    /\ tasks = EmptyBag
    /\ files = {}
    /\ downloaded = {}
    /\ nevents = 0
    /\ last = Step(0, "init", "none")
    /\ disk = EmptyDict
    /\ accepted = [merge |-> EmptyDict, img |-> EmptyDict]
    /\ environ = {}

(***************************************************************************)
(* Handlers that do not suspend between accesses to the shared maps.       *)
(***************************************************************************)
\* a faulty variant of start: the session state is left as it is
start_mutant(u) ==
    /\ \E old \in SUBSET {p[1] : p \in files} : files' = cleanup_old(old)
    /\ disk' = [p \in DOMAIN disk \cap files' |-> disk[p]]
    /\ Event(u, "start", "ok")
    /\ UNCHANGED <<maps, tasks, downloaded, accepted, environ>>

\* @dp.message(CommandStart())
start(u) ==
    /\ CanDeliver
    /\ \E old \in SUBSET {p[1] : p \in files} : files' = cleanup_old(old)
    /\ disk' = [p \in DOMAIN disk \cap files' |-> disk[p]]
    /\ USER_STATE' = set_state(u, "main", None, EmptyDict)
    /\ Event(u, "start", "ok")
    /\ UNCHANGED <<USER_PROXY, MERGE_BUCKET, IMG_BUCKET, tasks, downloaded, accepted, environ>>

\* a faulty variant of menu_of: the proxy menu is not selected
menu_of_mutant(cmd) == IF cmd \in {"file", "dl"} THEN cmd ELSE "main"

\* the menu menu_nav selects for a command
menu_of(cmd) == IF cmd \in {"file", "dl", "proxy"} THEN cmd ELSE "main"

\* @dp.callback_query(F.data.startswith("menu:"))
menu_nav(u, cmd) ==
    /\ CanDeliver
    /\ USER_STATE' = set_state(u, menu_of(cmd), None, EmptyDict)
    /\ Event(u, "menu:" \o cmd, "ok")
    /\ UNCHANGED <<USER_PROXY, MERGE_BUCKET, IMG_BUCKET, tasks, files, downloaded, disk, accepted, environ>>

\* a faulty variant of proxy_actions: show removes the proxy it shows
proxy_actions_mutant(u, action) ==
    /\ CanDeliver
    /\ IF action = "set"
       THEN /\ USER_STATE' = set_state(u, "proxy", "proxy_wait", EmptyDict)
            /\ UNCHANGED USER_PROXY
       ELSE /\ USER_PROXY' = Pop(USER_PROXY, u)
            /\ UNCHANGED USER_STATE
    /\ Event(u, "proxy:" \o action, "ok")
    /\ UNCHANGED <<MERGE_BUCKET, IMG_BUCKET, tasks, files, downloaded, disk, accepted, environ>>

\* @dp.callback_query(F.data.startswith("proxy:"))
proxy_actions(u, action) ==
    /\ CanDeliver
    /\ IF action = "set"
       THEN /\ USER_STATE' = set_state(u, "proxy", "proxy_wait", EmptyDict)
            /\ UNCHANGED USER_PROXY
       ELSE IF action = "clear"
       THEN /\ USER_PROXY' = Pop(USER_PROXY, u)
            /\ UNCHANGED USER_STATE
       ELSE UNCHANGED <<USER_STATE, USER_PROXY>>
    /\ Event(u, "proxy:" \o action, "ok")
    /\ UNCHANGED <<MERGE_BUCKET, IMG_BUCKET, tasks, files, downloaded, disk, accepted, environ>>

\* the wait-state file_actions selects for an action
file_wait_state(action) ==
    CASE action = "zip" -> "zip_wait_file"
      [] action = "unzip" -> "unzip_wait_zip"
      [] action = "rename" -> "rename_wait_file"
      [] action = "text2pdf" -> "text2pdf_wait_text"
      [] action = "img2pdf" -> "img2pdf_collect"
      [] action = "mergepdf" -> "merge_collect"

\* tasks ts after the list object a bucket holds for u is replaced or dropped:
\* a done handler of u keeps its own reference to the old list
Unalias(ts, u, flow) ==
    BagOfAll(LAMBDA t : IF t.u = u /\ t.flow = flow
                        THEN [t EXCEPT !.alias = FALSE] ELSE t, ts)

\* tasks ts after path is appended to the list object a bucket holds for u:
\* a done handler of u holding that list passes the longer list to its
\* operation; once the operation has run (pc = "send") nothing reads the list
\* again, and items keeps what the operation read
Aliased(ts, u, flow, path) ==
    BagOfAll(LAMBDA t : IF t.u = u /\ t.flow = flow /\ t.alias /\ t.pc = "op"
                        THEN [t EXCEPT !.items = Append(@, path)] ELSE t, ts)

\* a faulty variant of file_actions: the buffers are left as they are
file_actions_mutant(u, action) ==
    /\ USER_STATE' = set_state(u, "file", file_wait_state(action), EmptyDict)
    /\ Event(u, "file:" \o action, "ok")
    /\ UNCHANGED <<USER_PROXY, MERGE_BUCKET, IMG_BUCKET, tasks, files, downloaded,
                   disk, accepted, environ>>

\* @dp.callback_query(F.data.startswith("file:"))
file_actions(u, action) ==
    /\ CanDeliver
    /\ IF action = "img2pdf"
       THEN /\ IMG_BUCKET' = Put(IMG_BUCKET, u, <<>>)
            /\ accepted' = [accepted EXCEPT !.img = Put(@, u, <<>>)]
            /\ tasks' = Unalias(tasks, u, "img_done")
            /\ UNCHANGED MERGE_BUCKET
       ELSE IF action = "mergepdf"
       THEN /\ MERGE_BUCKET' = Put(MERGE_BUCKET, u, <<>>)
            /\ accepted' = [accepted EXCEPT !.merge = Put(@, u, <<>>)]
            /\ tasks' = Unalias(tasks, u, "merge_done")
            /\ UNCHANGED IMG_BUCKET
       ELSE UNCHANGED <<MERGE_BUCKET, IMG_BUCKET, tasks, accepted, environ>>
    /\ USER_STATE' = set_state(u, "file", file_wait_state(action), EmptyDict)
    /\ Event(u, "file:" \o action, "ok")
    /\ UNCHANGED <<USER_PROXY, files, downloaded, disk, environ>>

\* the wait-state dl_actions selects for an action
dl_wait_state(action) ==
    CASE action = "auto" -> "dl_wait_link_auto"
      [] action = "yt" -> "dl_wait_link_yt"
      [] action = "gdrive" -> "dl_wait_link_gdrive"
      [] action = "mega" -> "dl_wait_link_mega"
      [] action = "pixeldrain" -> "dl_wait_link_pixeldrain"

\* a faulty variant of dl_actions: the menu of the session is left as it is
dl_actions_mutant(u, action) ==
    /\ CanDeliver
    /\ USER_STATE' = set_state(u, get_state(u).menu, dl_wait_state(action), EmptyDict)
    /\ Event(u, "dl:" \o action, "ok")
    /\ UNCHANGED <<USER_PROXY, MERGE_BUCKET, IMG_BUCKET, tasks, files, downloaded, disk, accepted, environ>>

\* @dp.callback_query(F.data.startswith("dl:"))
dl_actions(u, action) ==
    /\ CanDeliver
    /\ USER_STATE' = set_state(u, "dl", dl_wait_state(action), EmptyDict)
    /\ Event(u, "dl:" \o action, "ok")
    /\ UNCHANGED <<USER_PROXY, MERGE_BUCKET, IMG_BUCKET, tasks, files, downloaded, disk, accepted, environ>>

\* send_file raises when the path does not exist
can_send(path) == path \in files

\* a faulty variant of merge_too_few: a single PDF is enough
merge_too_few_mutant(pdfs) == Len(pdfs) < 1

\* merge_controls, done: len(pdfs) < 2
merge_too_few(pdfs) == Len(pdfs) < 2

\* imgpdf_controls, done: len(imgs) < 1
imgpdf_too_few(imgs) == Len(imgs) < 1

\* a faulty variant of done_finally: the list is emptied, the key is kept
done_finally_mutant(bucket, u) == Put(bucket, u, <<>>)

\* the finally clause of both done branches: BUCKET.pop(user_id, None)
done_finally(bucket, u) == Pop(bucket, u)

(***************************************************************************)
(* merge:clear, merge:cancel, merge:done                                   *)
(***************************************************************************)
merge_out(u) == output_path(u, safe_filename(S("merged.pdf")))

\* a faulty variant of merge_controls: clear also leaves the collection
merge_controls_mutant(u, cmd) ==
    /\ CanDeliver
    /\ cmd = "clear"
    /\ MERGE_BUCKET' = Put(MERGE_BUCKET, u, <<>>)
    /\ USER_STATE' = set_state(u, "file", None, EmptyDict)
    /\ Event(u, "merge:clear", "ok")
    /\ UNCHANGED <<USER_PROXY, IMG_BUCKET, tasks, files, downloaded, disk, accepted, environ>>

\* @dp.callback_query(F.data.startswith("merge:")), up to run_blocking
merge_controls(u, cmd) ==
    /\ CanDeliver
    /\ cmd \in {"clear", "cancel", "done"}
    /\ IF cmd = "clear"
       THEN /\ MERGE_BUCKET' = Put(MERGE_BUCKET, u, <<>>)
            /\ accepted' = [accepted EXCEPT !.merge = Put(@, u, <<>>)]
            /\ tasks' = Unalias(tasks, u, "merge_done")
            /\ Event(u, "merge:clear", "ok")
            /\ UNCHANGED USER_STATE
       ELSE IF cmd = "cancel"
       THEN /\ MERGE_BUCKET' = Pop(MERGE_BUCKET, u)
            /\ accepted' = [accepted EXCEPT !.merge = Pop(@, u)]
            /\ tasks' = Unalias(tasks, u, "merge_done")
            /\ USER_STATE' = set_state(u, "file", None, EmptyDict)
            /\ Event(u, "merge:cancel", "ok")
       ELSE LET pdfs == Get(MERGE_BUCKET, u, <<>>)
            IN  IF merge_too_few(pdfs)
                THEN /\ Event(u, "merge:done", "rejected")
                     /\ UNCHANGED <<USER_STATE, MERGE_BUCKET, tasks, accepted, environ>>
                ELSE /\ HasFree
                     /\ tasks' = Spawn([u |-> u, flow |-> "merge_done", pc |-> "op",
                                        items |-> pdfs, alias |-> TRUE])
                     /\ Event(u, "merge:done", "accepted")
                     /\ UNCHANGED <<USER_STATE, MERGE_BUCKET, accepted, environ>>
    /\ UNCHANGED <<USER_PROXY, IMG_BUCKET, files, downloaded, disk, environ>>

\* merge_controls, done: the try block raised, the finally clause runs and
\* the exception leaves the handler
merge_done_raise(t) ==
    /\ MERGE_BUCKET' = done_finally(MERGE_BUCKET, t.u)
    /\ accepted' = [accepted EXCEPT !.merge = done_finally(@, t.u)]
    /\ tasks' = Unalias(Finish(t), t.u, "merge_done")
    /\ Resume(t.u, "merge_done", "failed")
    /\ UNCHANGED <<USER_STATE, USER_PROXY, IMG_BUCKET, files, downloaded, disk, environ>>

\* utils.merge_pdfs: the units of the output, one per path in list order, each
\* read from the file at that path
merge_pdfs(pdf_paths) == [k \in 1..Len(pdf_paths) |-> disk[pdf_paths[k]]]

\* the step of a done operation, with the units of its output
DoneStep(t, pages) ==
    [u |-> t.u, ev |-> t.flow, res |-> "op_ok", pages |-> pages]

\* await q.message.answer("Merging PDFs..."); await run_blocking(do_merge_pdfs, pdfs, out)
merge_done_op(t) ==
    /\ At(t, "merge_done", "op")
    /\ \/ /\ \A k \in 1..Len(t.items) : t.items[k] \in files
          /\ files' = files \cup {merge_out(t.u)}
          /\ tasks' = Move(t, [t EXCEPT !.pc = "send"])
          /\ last' = DoneStep(t, merge_pdfs(t.items))
          /\ UNCHANGED <<maps, downloaded, disk, accepted, environ, nevents>>
       \/ merge_done_raise(t)

\* await send_file(...); finally: pop; set_state(user_id, "file", None)
merge_done_send(t) ==
    /\ At(t, "merge_done", "send")
    /\ \/ /\ can_send(merge_out(t.u))
          /\ MERGE_BUCKET' = done_finally(MERGE_BUCKET, t.u)
          /\ accepted' = [accepted EXCEPT !.merge = done_finally(@, t.u)]
          /\ USER_STATE' = set_state(t.u, "file", None, EmptyDict)
          /\ tasks' = Unalias(Finish(t), t.u, "merge_done")
          /\ Resume(t.u, "merge_done", "ok")
          /\ UNCHANGED <<USER_PROXY, IMG_BUCKET, files, downloaded, disk, environ>>
       \/ merge_done_raise(t)

(***************************************************************************)
(* imgpdf:clear, imgpdf:cancel, imgpdf:done                                *)
(***************************************************************************)
imgpdf_out(u) == output_path(u, safe_filename(S("images.pdf")))

\* @dp.callback_query(F.data.startswith("imgpdf:")), up to run_blocking
imgpdf_controls(u, cmd) ==
    /\ CanDeliver
    /\ cmd \in {"clear", "cancel", "done"}
    /\ IF cmd = "clear"
       THEN /\ IMG_BUCKET' = Put(IMG_BUCKET, u, <<>>)
            /\ accepted' = [accepted EXCEPT !.img = Put(@, u, <<>>)]
            /\ tasks' = Unalias(tasks, u, "img_done")
            /\ Event(u, "imgpdf:clear", "ok")
            /\ UNCHANGED USER_STATE
       ELSE IF cmd = "cancel"
       THEN /\ IMG_BUCKET' = Pop(IMG_BUCKET, u)
            /\ accepted' = [accepted EXCEPT !.img = Pop(@, u)]
            /\ tasks' = Unalias(tasks, u, "img_done")
            /\ USER_STATE' = set_state(u, "file", None, EmptyDict)
            /\ Event(u, "imgpdf:cancel", "ok")
       ELSE LET imgs == Get(IMG_BUCKET, u, <<>>)
            IN  IF imgpdf_too_few(imgs)
                THEN /\ Event(u, "imgpdf:done", "rejected")
                     /\ UNCHANGED <<USER_STATE, IMG_BUCKET, tasks, accepted, environ>>
                ELSE /\ HasFree
                     /\ tasks' = Spawn([u |-> u, flow |-> "img_done", pc |-> "op",
                                        items |-> imgs, alias |-> TRUE])
                     /\ Event(u, "imgpdf:done", "accepted")
                     /\ UNCHANGED <<USER_STATE, IMG_BUCKET, accepted, environ>>
    /\ UNCHANGED <<USER_PROXY, MERGE_BUCKET, files, downloaded, disk, environ>>

\* imgpdf_controls, done: the try block raised, the finally clause runs and
\* the exception leaves the handler
imgpdf_done_raise(t) ==
    /\ IMG_BUCKET' = done_finally(IMG_BUCKET, t.u)
    /\ accepted' = [accepted EXCEPT !.img = done_finally(@, t.u)]
    /\ tasks' = Unalias(Finish(t), t.u, "img_done")
    /\ Resume(t.u, "img_done", "failed")
    /\ UNCHANGED <<USER_STATE, USER_PROXY, MERGE_BUCKET, files, downloaded, disk, environ>>

\* utils.images_to_pdf: the pages of the output, one per path in list order,
\* each the image read from the file at that path
images_to_pdf(image_paths) == [k \in 1..Len(image_paths) |-> disk[image_paths[k]]]

\* await q.message.answer("Converting images to PDF...");
\* await run_blocking(do_images_to_pdf, imgs, out)
imgpdf_done_op(t) ==
    /\ At(t, "img_done", "op")
    /\ \/ /\ \A k \in 1..Len(t.items) : t.items[k] \in files
          /\ files' = files \cup {imgpdf_out(t.u)}
          /\ tasks' = Move(t, [t EXCEPT !.pc = "send"])
          /\ last' = DoneStep(t, images_to_pdf(t.items))
          /\ UNCHANGED <<maps, downloaded, disk, accepted, environ, nevents>>
       \/ imgpdf_done_raise(t)

\* await send_file(...); finally: pop; set_state(user_id, "file", None)
imgpdf_done_send(t) ==
    /\ At(t, "img_done", "send")
    /\ \/ /\ can_send(imgpdf_out(t.u))
          /\ IMG_BUCKET' = done_finally(IMG_BUCKET, t.u)
          /\ accepted' = [accepted EXCEPT !.img = done_finally(@, t.u)]
          /\ USER_STATE' = set_state(t.u, "file", None, EmptyDict)
          /\ tasks' = Unalias(Finish(t), t.u, "img_done")
          /\ Resume(t.u, "img_done", "ok")
          /\ UNCHANGED <<USER_PROXY, MERGE_BUCKET, files, downloaded, disk, environ>>
       \/ imgpdf_done_raise(t)

(***************************************************************************)
(* handle_message: the branches, each up to its first await on a download  *)
(* or an operation                                                         *)
(***************************************************************************)
Action(u) == get_state(u).action

Reject(u, ev, res) == /\ Event(u, ev, res)
                      /\ UNCHANGED <<maps, tasks, files, downloaded, disk, accepted, environ>>

\* handle_message, action == "proxy_wait"
hm_proxy_wait(u, msg) ==
    /\ CanDeliver
    /\ Action(u) = "proxy_wait"
    /\ LET p == Strip(TextOrEmpty(msg))
       IN  IF ~PROXY_RE_match(p)
           THEN Reject(u, "proxy_wait", "rejected")
           ELSE /\ USER_PROXY' = Put(USER_PROXY, u, p)
                /\ USER_STATE' = set_state(u, "proxy", None, EmptyDict)
                /\ Event(u, "proxy_wait", "ok")
                /\ UNCHANGED <<MERGE_BUCKET, IMG_BUCKET, tasks, files, downloaded, disk, accepted, environ>>

\* a faulty variant of text_too_long: one character above the limit passes
text_too_long_mutant(txt) == Len(txt) > max_text_len + 1

\* handle_message, text2pdf_wait_text: len(txt) > settings.max_text_len
text_too_long(txt) == Len(txt) > max_text_len

\* handle_message, action == "text2pdf_wait_text"
hm_text2pdf(u, msg) ==
    /\ CanDeliver
    /\ Action(u) = "text2pdf_wait_text"
    /\ LET txt == TextOrEmpty(msg)
       IN  IF Strip(txt) = <<>>
           THEN Reject(u, "text2pdf", "rejected")
           ELSE IF text_too_long(txt)
           THEN Reject(u, "text2pdf", "too_long")
           ELSE /\ HasFree
                /\ tasks' = Spawn([u |-> u, flow |-> "text2pdf", pc |-> "op",
                                   out |-> output_path(u, safe_filename(S("text.pdf")))])
                /\ Event(u, "text2pdf", "accepted")
                /\ UNCHANGED <<maps, files, downloaded, disk, accepted, environ>>

\* a faulty variant of doc_flow: a document sent where the new name is
\* awaited is taken as the file to rename
doc_flow_mutant(action) ==
    CASE action = "zip_wait_file" -> "zip"
      [] action = "unzip_wait_zip" -> "unzip"
      [] action \in {"rename_wait_file", "rename_wait_newname"} -> "rename_file"
      [] action = "merge_collect" -> "merge_add"
      [] action = "img2pdf_collect" -> "img_add"
      [] OTHER -> "none"

\* the flow a document starts in each wait-state
doc_flow(action) ==
    CASE action = "zip_wait_file" -> "zip"
      [] action = "unzip_wait_zip" -> "unzip"
      [] action = "rename_wait_file" -> "rename_file"
      [] action = "merge_collect" -> "merge_add"
      [] action = "img2pdf_collect" -> "img_add"
      [] OTHER -> "none"

\* a faulty variant of kind_ok: merge takes a document of any kind
kind_ok_mutant(action, kind) ==
    /\ action = "img2pdf_collect" => kind = "image"

\* the kind of document a collection state expects
kind_ok(action, kind) ==
    /\ action = "merge_collect" => kind = "pdf"
    /\ action = "img2pdf_collect" => kind = "image"

\* a faulty variant of too_large: the ceiling is off by one
too_large_mutant(size) == size # 0 /\ size > max_bytes + 1

\* download_telegram_file: file.file_size and file.file_size > max_bytes
too_large(size) == size # 0 /\ size > max_bytes

\* the output of the zip and unzip flows for a document name
zip_out(u, flow, filename) ==
    output_path(u, safe_filename(Stem(filename)
                    \o (IF flow = "zip" THEN S(".zip") ELSE S("_unzipped.zip"))))

\* handle_message, message.document: up to the await in download_telegram_file
hm_document(u, msg) ==
    /\ CanDeliver
    /\ Action(u) \notin {"proxy_wait", "text2pdf_wait_text"}
    /\ HasDoc(msg)
    /\ LET filename == FileName(msg)
           kind == detect_content_type_from_name(filename)
           local_path == work_path(u, safe_filename(filename))
           flow == doc_flow(Action(u))
       IN  IF flow = "none"
           THEN Reject(u, "document", "rejected")
           ELSE IF ~kind_ok(Action(u), kind)
           THEN Reject(u, flow, "rejected")
           ELSE IF too_large(msg.size)
           THEN \* download_telegram_file raises, the exception leaves the handler
                Reject(u, flow, "too_large")
           ELSE /\ HasFree
                /\ tasks' = Spawn(IF flow \in {"zip", "unzip"}
                                  THEN [u |-> u, flow |-> flow, pc |-> "download",
                                        path |-> local_path, content |-> msg.content,
                                        out |-> zip_out(u, flow, filename)]
                                  ELSE [u |-> u, flow |-> flow, pc |-> "download",
                                        path |-> local_path, content |-> msg.content])
                /\ Event(u, flow, "accepted")
                /\ UNCHANGED <<maps, files, downloaded, disk, accepted, environ>>

\* handle_message, action == "rename_wait_newname"
hm_rename_newname(u, msg) ==
    /\ CanDeliver
    /\ Action(u) = "rename_wait_newname"
    /\ ~HasDoc(msg)
    /\ LET new_name == Strip(TextOrEmpty(msg))
           st == get_state(u)
       IN  IF new_name = <<>>
           THEN Reject(u, "rename_new", "rejected")
           ELSE IF "rename_path" \notin DOMAIN st
           THEN /\ USER_STATE' = set_state(u, "file", None, EmptyDict)
                /\ Event(u, "rename_new", "expired")
                /\ UNCHANGED <<USER_PROXY, MERGE_BUCKET, IMG_BUCKET, tasks, files,
                               downloaded, disk, accepted, environ>>
           ELSE /\ HasFree
                /\ tasks' = Spawn([u |-> u, flow |-> "rename_new", pc |-> "op",
                                   path |-> st.rename_path, new_name |-> new_name])
                /\ Event(u, "rename_new", "accepted")
                /\ UNCHANGED <<maps, files, downloaded, disk, accepted, environ>>

\* a faulty variant of guess_downloader: the case of the URL is kept
guess_downloader_mutant(url) ==
    LET u == Strip(url)
    IN  IF Contains(u, S("pixeldrain.com")) THEN "pixeldrain"
        ELSE IF Contains(u, S("drive.google.com")) THEN "gdrive"
        ELSE IF Contains(u, S("mega.nz")) THEN "mega"
        ELSE IF Contains(u, S("youtu")) \/ Contains(u, S("youtube.com")) THEN "youtube"
        ELSE "unknown"

\* features_download.guess_downloader
guess_downloader(url) ==
    LET u == Lower(Strip(url))
    IN  IF Contains(u, S("pixeldrain.com")) THEN "pixeldrain"
        ELSE IF Contains(u, S("drive.google.com")) THEN "gdrive"
        ELSE IF Contains(u, S("mega.nz")) THEN "mega"
        ELSE IF Contains(u, S("youtu")) \/ Contains(u, S("youtube.com")) THEN "youtube"
        ELSE "unknown"

\* action.replace("dl_wait_link_", "")
dl_mode(action) ==
    CASE action = "dl_wait_link_auto" -> "auto"
      [] action = "dl_wait_link_yt" -> "yt"
      [] action = "dl_wait_link_gdrive" -> "gdrive"
      [] action = "dl_wait_link_mega" -> "mega"
      [] action = "dl_wait_link_pixeldrain" -> "pixeldrain"

DlWaitStates == {"dl_wait_link_auto", "dl_wait_link_yt", "dl_wait_link_gdrive",
                 "dl_wait_link_mega", "dl_wait_link_pixeldrain"}

KnownModes == {"pixeldrain", "gdrive", "youtube", "yt", "mega"}

\* handle_message, action.startswith("dl_wait_link"): up to the first await
\* of a retrieval, or of the reply of the unknown-link branch
hm_dl_link(u, msg) ==
    /\ CanDeliver
    /\ Action(u) \in DlWaitStates
    /\ ~HasDoc(msg)
    /\ LET url == Strip(TextOrEmpty(msg))
           m == dl_mode(Action(u))
           mode == IF m = "auto" THEN guess_downloader(url) ELSE m
       IN  IF url = <<>>
           THEN Reject(u, "dl", "rejected")
           ELSE /\ HasFree
                /\ tasks' = Spawn([u |-> u, flow |-> "dl",
                                   pc |-> IF mode \in KnownModes THEN "op" ELSE "reply",
                                   mode |-> mode, proxy |-> user_proxy(u)])
                /\ Event(u, "dl", "accepted")
                /\ UNCHANGED <<maps, files, downloaded, disk, accepted, environ>>

\* handle_message, the default reply
hm_default(u, msg) ==
    /\ CanDeliver
    /\ Action(u) \notin {"proxy_wait", "text2pdf_wait_text", "rename_wait_newname"}
                        \cup DlWaitStates
    /\ ~HasDoc(msg)
    /\ Reject(u, "default", "rejected")

\* @dp.message()
handle_message(u, msg) ==
    \/ hm_proxy_wait(u, msg)
    \/ hm_text2pdf(u, msg)
    \/ hm_document(u, msg)
    \/ hm_rename_newname(u, msg)
    \/ hm_dl_link(u, msg)
    \/ hm_default(u, msg)

(***************************************************************************)
(* handle_message: the steps after each await                              *)
(***************************************************************************)
DocFlows == {"zip", "unzip", "rename_file", "merge_add", "img_add"}
FileFlows == {"zip", "unzip", "text2pdf"}

\* an exception leaves handle_message: nothing after the await runs
Abort(t, res) ==
    /\ tasks' = Finish(t)
    /\ Resume(t.u, t.flow, res)
    /\ UNCHANGED maps

\* MERGE_BUCKET.setdefault(user_id, []).append(local_path)
bucket_append(bucket, u, path) == Put(bucket, u, Append(Get(bucket, u, <<>>), path))

\* a faulty variant of download_failed: the path is appended although the
\* download raised
download_failed_mutant(t) ==
    /\ tasks' = Finish(t)
    /\ Resume(t.u, t.flow, "download_failed")
    /\ MERGE_BUCKET' = IF t.flow = "merge_add"
                       THEN bucket_append(MERGE_BUCKET, t.u, t.path) ELSE MERGE_BUCKET
    /\ UNCHANGED <<USER_STATE, USER_PROXY, IMG_BUCKET, files, downloaded, disk, accepted, environ>>

\* bot.get_file or bot.download_file raises: the exception leaves the handler
download_failed(t) ==
    /\ Abort(t, "download_failed")
    /\ UNCHANGED <<files, downloaded, disk, accepted, environ>>

\* await bot.get_file / bot.download_file in download_telegram_file, then the
\* handler up to its next await on an operation
download_telegram_file(t) ==
    /\ t.flow \in DocFlows /\ t.pc = "download"
    /\ \/ download_failed(t)
       \/ /\ files' = files \cup {t.path}
          /\ downloaded' = downloaded \cup {t.path}
          /\ disk' = Put(disk, t.path, t.content)
          /\ UNCHANGED environ
          /\ accepted' =
                CASE t.flow = "merge_add" ->
                       [accepted EXCEPT !.merge = bucket_append(@, t.u, t.content)]
                  [] t.flow = "img_add" ->
                       [accepted EXCEPT !.img = bucket_append(@, t.u, t.content)]
                  [] OTHER -> accepted
          /\ CASE t.flow = "zip" ->
                    /\ tasks' = Move(t, [t EXCEPT !.pc = "op"])
                    /\ Resume(t.u, t.flow, "downloaded")
                    /\ UNCHANGED maps
               [] t.flow = "unzip" ->
                    \* is_zip(local_path) depends on the content received
                    \/ /\ tasks' = Move(t, [t EXCEPT !.pc = "op"])
                       /\ Resume(t.u, t.flow, "downloaded")
                       /\ UNCHANGED maps
                    \/ /\ tasks' = Finish(t)
                       /\ Resume(t.u, t.flow, "not_zip")
                       /\ UNCHANGED maps
               [] t.flow = "rename_file" ->
                    /\ USER_STATE' = set_state(t.u, "file", "rename_wait_newname",
                                               [rename_path |-> t.path])
                    /\ tasks' = Finish(t)
                    /\ Resume(t.u, t.flow, "ok")
                    /\ UNCHANGED <<USER_PROXY, MERGE_BUCKET, IMG_BUCKET>>
               [] t.flow = "merge_add" ->
                    /\ MERGE_BUCKET' = bucket_append(MERGE_BUCKET, t.u, t.path)
                    /\ tasks' = IF t.u \in DOMAIN MERGE_BUCKET
                                THEN Aliased(Finish(t), t.u, "merge_done", t.path)
                                ELSE Finish(t)
                    /\ Resume(t.u, t.flow, "ok")
                    /\ UNCHANGED <<USER_STATE, USER_PROXY, IMG_BUCKET>>
               [] t.flow = "img_add" ->
                    /\ IMG_BUCKET' = bucket_append(IMG_BUCKET, t.u, t.path)
                    /\ tasks' = IF t.u \in DOMAIN IMG_BUCKET
                                THEN Aliased(Finish(t), t.u, "img_done", t.path)
                                ELSE Finish(t)
                    /\ Resume(t.u, t.flow, "ok")
                    /\ UNCHANGED <<USER_STATE, USER_PROXY, MERGE_BUCKET>>

\* the directory unzip extracts into
unzipped_dir(u) == work_path(u, <<"u", "n", "z", "i", "p", "p", "e", "d">>)

\* the step of a zip operation, with the archive it wrote
ZipStep(t, archive) ==
    [u |-> t.u, ev |-> t.flow, res |-> "op_ok", archive |-> archive]

\* await run_blocking(do_text_to_pdf / do_zip / do_unzip, ...) with the working
\* notice before it
file_op(t) ==
    /\ t.flow \in FileFlows /\ t.pc \in {"op", "op2"}
    /\ \/ /\ Abort(t, "failed")
          /\ UNCHANGED <<files, disk>>
       \/ /\ t.flow = "text2pdf"
          /\ files' = files \cup {t.out}
          /\ tasks' = Move(t, [t EXCEPT !.pc = "send"])
          /\ Resume(t.u, t.flow, "op_ok")
          /\ UNCHANGED <<maps, disk>>
       \/ /\ t.flow = "zip"
          /\ t.path \in files
          /\ files' = files \cup {t.out}
          /\ tasks' = Move(t, [t EXCEPT !.pc = "send"])
          /\ last' = ZipStep(t, zip_paths(<<t.path>>))
          /\ UNCHANGED <<maps, disk, nevents>>
       \/ \* if not is_zip(local_path): reply "not a valid ZIP", return
          /\ t.flow = "unzip" /\ t.pc = "op"
          /\ t.path \in files /\ ~is_zip(t.path)
          /\ Abort(t, "not_zip")
          /\ UNCHANGED <<files, disk>>
       \/ /\ t.flow = "unzip" /\ t.pc = "op"
          /\ t.path \in files /\ is_zip(t.path)
          /\ files' = files \cup {unzipped_dir(t.u)}
          /\ disk' = Put(disk, unzipped_dir(t.u), unzip_to_dir(t.path, unzipped_dir(t.u)))
          /\ tasks' = Move(t, [t EXCEPT !.pc = "op2"])
          /\ Resume(t.u, t.flow, "op_ok")
          /\ UNCHANGED maps
       \/ /\ t.flow = "unzip" /\ t.pc = "op2"
          /\ unzipped_dir(t.u) \in files
          /\ files' = files \cup {t.out}
          /\ tasks' = Move(t, [t EXCEPT !.pc = "send"])
          /\ last' = ZipStep(t, zip_paths(<<unzipped_dir(t.u)>>))
          /\ UNCHANGED <<maps, disk, nevents>>
    /\ UNCHANGED <<downloaded, accepted, environ>>

\* await send_file(...); set_state(user_id, "file", None)
file_send(t) ==
    /\ t.flow \in FileFlows /\ t.pc = "send"
    /\ \/ /\ can_send(t.out)
          /\ USER_STATE' = set_state(t.u, "file", None, EmptyDict)
          /\ tasks' = Finish(t)
          /\ Resume(t.u, t.flow, "ok")
          /\ UNCHANGED <<USER_PROXY, MERGE_BUCKET, IMG_BUCKET>>
       \/ Abort(t, "failed")
    /\ UNCHANGED <<files, downloaded, disk, accepted, environ>>

\* pathlib: with_name raises for these names, and renaming onto them fails
InvalidNames == {<<>>, <<".">>, <<".", ".">>}

\* features_file.do_rename: the target path
rename_target(path, new_name) == <<path[1], path[2], safe_filename(new_name)>>

\* a faulty variant of do_rename: the file is copied, the source is kept
do_rename_mutant(path, new_name) == files \cup {rename_target(path, new_name)}

\* features_file.do_rename: the files after a successful rename
do_rename(path, new_name) == (files \ {path}) \cup {rename_target(path, new_name)}

\* the step of a rename, with the source and the target path
RenameStep(t, res) ==
    [u |-> t.u, ev |-> "rename_new", res |-> res,
     src |-> t.path, dst |-> rename_target(t.path, t.new_name)]

\* await run_blocking(do_rename, fpath, new_name), with the except clause
rename_op(t) ==
    /\ At(t, "rename_new", "op")
    /\ \/ /\ t.path \in files
          /\ safe_filename(t.new_name) \notin InvalidNames
          /\ files' = do_rename(t.path, t.new_name)
          /\ disk' = IF t.path \in DOMAIN disk
                      THEN Put(Pop(disk, t.path),
                               rename_target(t.path, t.new_name), disk[t.path])
                      ELSE disk
          /\ tasks' = Move(t, [t EXCEPT !.pc = "send"])
          /\ last' = RenameStep(t, "op_ok")
       \/ \* except Exception: reply "Rename failed", return
          /\ tasks' = Finish(t)
          /\ last' = RenameStep(t, "failed")
          /\ UNCHANGED <<files, disk>>
    /\ UNCHANGED <<maps, downloaded, accepted, environ, nevents>>

\* await send_file(message.chat.id, new_path, ...); set_state(user_id, "file", None)
rename_send(t) ==
    /\ At(t, "rename_new", "send")
    /\ \/ /\ can_send(rename_target(t.path, t.new_name))
          /\ USER_STATE' = set_state(t.u, "file", None, EmptyDict)
          /\ last' = RenameStep(t, "ok")
       \/ /\ last' = RenameStep(t, "failed")
          /\ UNCHANGED USER_STATE
    /\ tasks' = Finish(t)
    /\ UNCHANGED <<USER_PROXY, MERGE_BUCKET, IMG_BUCKET, files, downloaded, disk, accepted, environ, nevents>>

(***************************************************************************)
(* handle_message: the download flow, inside try / except / finally        *)
(***************************************************************************)
\* the file a retrieval leaves in the downloads directory
dl_result(u) == downloads_path(u, S("file.bin"))
dl_playlist_out(u) == output_path(u, safe_filename(S("youtube_playlist.zip")))

\* the path the download flow sends
dl_out(t) == IF t.pc = "send2" THEN dl_playlist_out(t.u) ELSE dl_result(t.u)

\* download_gdrive: os.environ["HTTP_PROXY"] = os.environ["HTTPS_PROXY"] = proxy
\* when a proxy is given; the other retrievals leave the environment alone
dl_environ(t) == IF t.mode = "gdrive" /\ t.proxy # {} THEN t.proxy ELSE environ

\* the proxy the requests of a retrieval go through. download_pixeldrain
\* passes proxies= to requests and download_youtube --proxy to yt-dlp, which
\* both fall back to HTTP_PROXY / HTTPS_PROXY of the environment when no proxy
\* is given; gdown (download_gdrive) and mega.py (download_mega) are given no
\* proxy and read the environment
dl_proxy_used(t) ==
    CASE t.mode \in {"pixeldrain", "youtube", "yt"} ->
              IF t.proxy # {} THEN t.proxy ELSE environ
      [] t.mode = "gdrive" -> dl_environ(t)
      [] t.mode = "mega" -> environ

\* the step of a retrieval, with the proxy the handler passed to it and the
\* proxy its requests went through
DlStep(t, res) == [u |-> t.u, ev |-> "dl", res |-> res, proxy |-> t.proxy,
                   used |-> dl_proxy_used(t)]

\* await run_blocking(download_pixeldrain / download_gdrive / download_youtube /
\* download_mega, url, ddir, proxy), and do_zip for a playlist
dl_op(t) ==
    /\ t.flow = "dl" /\ t.pc \in {"op", "op2"}
    /\ \/ /\ t.pc = "op"
          /\ files' = files \cup {dl_result(t.u)}
          /\ environ' = dl_environ(t)
          /\ UNCHANGED nevents
          /\ \/ /\ tasks' = Move(t, [t EXCEPT !.pc = "send"])
                /\ last' = DlStep(t, "op_ok")
             \/ \* yt_out.is_dir(): "Playlist detected -> zipping..."
                /\ t.mode \in {"youtube", "yt"}
                /\ tasks' = Move(t, [t EXCEPT !.pc = "op2"])
                /\ last' = DlStep(t, "playlist")
       \/ /\ t.pc = "op2"
          /\ files' = files \cup {dl_playlist_out(t.u)}
          /\ tasks' = Move(t, [t EXCEPT !.pc = "send2"])
          /\ Resume(t.u, "dl", "op_ok")
          /\ UNCHANGED environ
       \/ /\ tasks' = Move(t, [t EXCEPT !.pc = "reply"])
          /\ Resume(t.u, "dl", "raised")
          /\ environ' = IF t.pc = "op" THEN dl_environ(t) ELSE environ
          /\ UNCHANGED files
    /\ UNCHANGED <<maps, downloaded, disk, accepted>>

\* await send_file(...) in the try block; finally: set_state(user_id, "dl", None)
dl_send(t) ==
    /\ t.flow = "dl" /\ t.pc \in {"send", "send2"}
    /\ \/ /\ can_send(dl_out(t))
          /\ USER_STATE' = set_state(t.u, "dl", None, EmptyDict)
          /\ tasks' = Finish(t)
          /\ Resume(t.u, "dl", "ok")
       \/ /\ tasks' = Move(t, [t EXCEPT !.pc = "reply"])
          /\ Resume(t.u, "dl", "raised")
          /\ UNCHANGED USER_STATE
    /\ UNCHANGED <<USER_PROXY, MERGE_BUCKET, IMG_BUCKET, files, downloaded, disk, accepted, environ>>

\* a faulty variant of dl_reply: the finally clause is missing on this path
dl_reply_mutant(t) ==
    /\ At(t, "dl", "reply")
    /\ tasks' = Finish(t)
    /\ Resume(t.u, "dl", "failed")
    /\ UNCHANGED <<maps, files, downloaded, disk, accepted, environ>>

\* await message.reply(...) of the unknown-link branch or the except clause;
\* finally: set_state(user_id, "dl", None)
dl_reply(t) ==
    /\ At(t, "dl", "reply")
    /\ USER_STATE' = set_state(t.u, "dl", None, EmptyDict)
    /\ tasks' = Finish(t)
    /\ Resume(t.u, "dl", "failed")
    /\ UNCHANGED <<USER_PROXY, MERGE_BUCKET, IMG_BUCKET, files, downloaded, disk, accepted, environ>>

(***************************************************************************)
(* The dispatcher: dp.start_polling(bot) handles every update as a task    *)
(***************************************************************************)
MenuCmds == {"file", "dl", "proxy", "back"}
ProxyActions == {"set", "clear", "show"}
FileActions == {"zip", "unzip", "rename", "text2pdf", "img2pdf", "mergepdf"}
DlActions == {"auto", "yt", "gdrive", "mega", "pixeldrain"}
Controls == {"done", "clear", "cancel"}

Next ==
    \/ \E u \in Users : start(u)
    \/ \E u \in Users, cmd \in MenuCmds : menu_nav(u, cmd)
    \/ \E u \in Users, a \in ProxyActions : proxy_actions(u, a)
    \/ \E u \in Users, a \in FileActions : file_actions(u, a)
    \/ \E u \in Users, a \in DlActions : dl_actions(u, a)
    \/ \E u \in Users, cmd \in Controls : merge_controls(u, cmd)
    \/ \E u \in Users, cmd \in Controls : imgpdf_controls(u, cmd)
    \/ \E u \in Users, msg \in Msgs : handle_message(u, msg)
    \/ \E t \in Running : merge_done_op(t)
    \/ \E t \in Running : merge_done_send(t)
    \/ \E t \in Running : imgpdf_done_op(t)
    \/ \E t \in Running : imgpdf_done_send(t)
    \/ \E t \in Running : download_telegram_file(t)
    \/ \E t \in Running : file_op(t)
    \/ \E t \in Running : file_send(t)
    \/ \E t \in Running : rename_op(t)
    \/ \E t \in Running : rename_send(t)
    \/ \E t \in Running : dl_op(t)
    \/ \E t \in Running : dl_send(t)
    \/ \E t \in Running : dl_reply(t)

Spec == Init /\ [][Next]_vars

(***************************************************************************)
(* Properties                                                              *)
(***************************************************************************)
Idle(u, menus) == get_state(u).action = None /\ get_state(u).menu \in menus
CollectStates == {"merge_collect", "img2pdf_collect"}
SingleShotDocStates == {"zip_wait_file", "unzip_wait_zip", "rename_wait_file"}
Oversized(msg) == msg.kind = "doc" /\ msg.size > max_bytes

\* C1: a merge control event outside merge-collect, and an imgpdf control event
\* outside img2pdf-collect, changes neither the session state nor any buffer
\* and starts no operation.
C1_ControlsOnlyInMatchingCollect ==
    [][\A u \in Users, cmd \in Controls :
          ((Action(u) # "merge_collect" /\ merge_controls(u, cmd))
           \/ (Action(u) # "img2pdf_collect" /\ imgpdf_controls(u, cmd)))
          => UNCHANGED <<maps, tasks>>]_vars

\* C2: once a single-shot action (zip, unzip, text-to-PDF, proxy-set,
\* rename-newname) has been attempted, with success or with a failure, the
\* session of its user is {menu: file|proxy, action: none}.
C2_SingleShotReturnsToIdle ==
    (/\ last.ev \in {"zip", "unzip", "text2pdf", "proxy_wait", "rename_new"}
     /\ last.res \in {"ok", "failed", "download_failed"})
    => Idle(last.u, {"file", "proxy"})

\* C3: when the operation started by an accepted done fails, the session of
\* its user is reset to {menu: file, action: none}.
C3_DoneFailureResetsSession ==
    (last.ev \in {"merge_done", "img_done"} /\ last.res = "failed")
    => Idle(last.u, {"file"})

\* C4: an oversized document in zip-wait, unzip-wait or rename-wait-file is not
\* downloaded, leaves no file behind, and the action is reset to none.
C4_OversizedSingleShotResets ==
    [][\A u \in Users, msg \in Msgs :
          (Oversized(msg) /\ Action(u) \in SingleShotDocStates /\ hm_document(u, msg))
          => /\ UNCHANGED <<tasks, files, downloaded>>
             /\ Idle(u, {"file"})']_vars

\* C5: an oversized document in merge-collect or img2pdf-collect is not
\* downloaded and not appended: the session state (the collection action
\* included), both buffers, the files and the handlers in flight are unchanged.
C5_OversizedCollectUnchanged ==
    [][\A u \in Users, msg \in Msgs :
          (Oversized(msg) /\ Action(u) \in CollectStates /\ hm_document(u, msg))
          => UNCHANGED <<maps, tasks, files, downloaded>>]_vars

\* C5 witness: an oversized image has just been refused in img2pdf-collect
C5_Witness ==
    /\ last.ev = "img_add" /\ last.res = "too_large"
    /\ Action(last.u) = "img2pdf_collect"

\* C6: no two background operations of the same user are in flight at once.
C6_OneOperationPerUser == \A u \in Users : OpsInFlight(u) <= 1

\* C7: a done with fewer than 2 buffered PDFs (merge) or fewer than 1 buffered
\* image (images-to-PDF) starts no operation and leaves the buffers and the
\* session state unchanged.
C7_TooFewRejected ==
    [][\A u \in Users :
          ((Len(Get(MERGE_BUCKET, u, <<>>)) < 2 /\ merge_controls(u, "done"))
           \/ (Len(Get(IMG_BUCKET, u, <<>>)) < 1 /\ imgpdf_controls(u, "done")))
          => UNCHANGED <<maps, tasks, files, downloaded>>]_vars

\* C7 witness: merge:done has just been rejected with exactly one PDF buffered
C7_Witness ==
    /\ last.ev = "merge:done" /\ last.res = "rejected"
    /\ last.u \in DOMAIN MERGE_BUCKET
    /\ Len(MERGE_BUCKET[last.u]) = 1

\* C8: when the operation of an accepted done has succeeded and its result is
\* delivered, the session is {menu: file, action: none} and the user has no
\* buffer for that flow.
C8_DoneSuccessResets ==
    /\ (last.ev = "merge_done" /\ last.res = "ok")
       => Idle(last.u, {"file"}) /\ last.u \notin DOMAIN MERGE_BUCKET
    /\ (last.ev = "img_done" /\ last.res = "ok")
       => Idle(last.u, {"file"}) /\ last.u \notin DOMAIN IMG_BUCKET

\* C8 witness: a merge has just been delivered
C8_Witness == last.ev = "merge_done" /\ last.res = "ok"

\* C9: every path in a merge or image buffer is a path in the work directory
\* of the buffer's user whose download returned successfully.
C9_BufferOnlyDownloaded ==
    \A u \in Users :
        /\ \A k \in 1..Len(Get(MERGE_BUCKET, u, <<>>)) :
              LET p == MERGE_BUCKET[u][k]
              IN  p \in downloaded /\ p[1] = u /\ p[2] = "work"
        /\ \A k \in 1..Len(Get(IMG_BUCKET, u, <<>>)) :
              LET p == IMG_BUCKET[u][k]
              IN  p \in downloaded /\ p[1] = u /\ p[2] = "work"

\* C9 witness: both users hold a buffered document
C9_Witness ==
    \A u \in Users : Len(Get(MERGE_BUCKET, u, <<>>)) + Len(Get(IMG_BUCKET, u, <<>>)) > 0

ProxyTexts ==
    {S("HTTP://p"), S("ftp://x"), S("http://"),
     <<"h", "t", "t", "p", "/", "/", "x">>,
     <<"s", "o", "c", "k", "s", "5", ":", "/", "/", "h">>,
     <<"x", "h", "t", "t", "p", ":", "/", "/", "p">>,
     <<" ", "h", "t", "t", "p", "s", ":", "/", "/", "q", " ">>}

ProxyMsgs == {[kind |-> "text", text |-> t] : t \in ProxyTexts}
             \cup {[kind |-> "other"], [kind |-> "doc", name |-> S("a.pdf"), size |-> 1]}

NextProxy ==
    \/ \E u \in Users, a \in ProxyActions : proxy_actions(u, a)
    \/ \E u \in Users, msg \in ProxyMsgs : hm_proxy_wait(u, msg)

SpecProxy == Init /\ [][NextProxy]_vars

\* s begins with one of the three schemes, letter case ignored
HasScheme(s) ==
    \E p \in {S("http://"), S("https://"), S("socks5://")} :
        Len(s) >= Len(p) /\ \A k \in 1..Len(p) : Lower(<<s[k]>>) = <<p[k]>>

\* C12 as stated: a message is accepted in proxy_wait exactly when its text
\* starts with http://, https:// or socks5://, letter case ignored; an accepted
\* text is stored and the session becomes {proxy, none}; any other message
\* leaves the session state and the stored proxy unchanged.
C12_ProxyAcceptedIffScheme ==
    [][\A u \in Users, msg \in ProxyMsgs :
          hm_proxy_wait(u, msg)
          => IF HasScheme(TextOrEmpty(msg))
             THEN /\ user_proxy(u)' = {TextOrEmpty(msg)}
                  /\ Idle(u, {"proxy"})'
             ELSE UNCHANGED <<USER_STATE, USER_PROXY>>]_vars

\* C12, amended: a message is accepted in proxy_wait exactly when its text,
\* with leading and trailing whitespace removed, starts with http://, https://
\* or socks5://, letter case ignored; the trimmed text is stored for the user
\* alone and the session becomes {proxy, none}; any other message leaves the
\* session state and the stored proxy unchanged; no file or handler changes.
C12_ProxyAcceptedIffTrimmedScheme ==
    [][\A u \in Users, msg \in ProxyMsgs :
          hm_proxy_wait(u, msg)
          => /\ IF HasScheme(Strip(TextOrEmpty(msg)))
                THEN /\ USER_PROXY' = Put(USER_PROXY, u, Strip(TextOrEmpty(msg)))
                     /\ Idle(u, {"proxy"})'
                     /\ \A v \in Users \ {u} : get_state(v)' = get_state(v)
                ELSE UNCHANGED <<USER_STATE, USER_PROXY>>
             /\ UNCHANGED <<MERGE_BUCKET, IMG_BUCKET, tasks, files, downloaded>>]_vars

\* C12 witness: an upper-case scheme is stored for one user after a refusal of
\* an input for the other
C12_Witness ==
    /\ last.ev = "proxy_wait" /\ last.res = "rejected"
    /\ \E v \in Users \ {last.u} : user_proxy(v) = {S("HTTP://p")}

\* C13: when the handler of a non-empty link message finishes, after a
\* delivered retrieval, a retrieval or delivery that raised, or an unrecognized
\* link, the session of its user is {menu: dl, action: none}.
C13_DlFlowEndsIdle ==
    [][\A t \in Running :
          (t.flow = "dl" /\ tasks' = Finish(t)) => Idle(t.u, {"dl"})']_vars

\* C13 witness: a download handler has just finished on its error path
C13_Witness ==
    /\ last.ev = "dl" /\ last.res = "failed"
    /\ Idle(last.u, {"dl"})

\* C18: a menu-navigation event sets menu to the selected menu and action to
\* none, whatever the session state was, and selecting the same menu again
\* right after leaves the session state exactly as it is.  (The step is
\* recognised by what menu_nav records in last, then by menu_nav itself.)
C18_MenuNavSetsMenu ==
    [][\A u \in Users, cmd \in MenuCmds :
          (last'.u = u /\ last'.ev = "menu:" \o cmd /\ menu_nav(u, cmd))
          => /\ get_state(u)' = [menu |-> IF cmd = "back" THEN "main" ELSE cmd,
                                 action |-> None]
             /\ (last.u = u /\ last.ev = "menu:" \o cmd /\ last.res = "ok")
                => USER_STATE' = USER_STATE]_vars

\* a menu was selected while a handler of the same user was suspended
C18_Witness ==
    /\ last.ev = "menu:proxy" /\ last.res = "ok"
    /\ get_state(last.u) = [menu |-> "proxy", action |-> None]
    /\ \E t \in Running : t.u = last.u

\* C19: the session of a user for whom nothing is stored reads as
\* {menu: main, action: none}, and after the restart command the session of
\* the user is {menu: main, action: none}, whatever it was.
C19_DefaultAndRestart ==
    /\ \A u \in Users : u \notin DOMAIN USER_STATE
                        => get_state(u) = [menu |-> "main", action |-> None]
    /\ last.ev = "start" => get_state(last.u) = [menu |-> "main", action |-> None]

\* a restart while a handler of the user was suspended, the other user unknown
C19_Witness ==
    /\ last.ev = "start" /\ last.res = "ok"
    /\ \E t \in Running : t.u = last.u
    /\ \E v \in Users \ {last.u} : v \notin DOMAIN USER_STATE

\* the wait-state of each action of the file menu and of the download menu
WaitStateOf ==
    [zip |-> "zip_wait_file", unzip |-> "unzip_wait_zip", rename |-> "rename_wait_file",
     text2pdf |-> "text2pdf_wait_text", img2pdf |-> "img2pdf_collect",
     mergepdf |-> "merge_collect", auto |-> "dl_wait_link_auto", yt |-> "dl_wait_link_yt",
     gdrive |-> "dl_wait_link_gdrive", mega |-> "dl_wait_link_mega",
     pixeldrain |-> "dl_wait_link_pixeldrain"]

\* C20: an action-selection event sets action to the wait-state of the action
\* and menu to the owning menu; img2pdf and mergepdf also leave the user's
\* image buffer, respectively merge buffer, present and empty, so nothing that
\* was in it before is in it after.
C20_SelectionSetsWaitState ==
    [][/\ \A u \in Users, a \in FileActions :
             (last'.u = u /\ last'.ev = "file:" \o a /\ file_actions(u, a))
             => /\ get_state(u)' = [menu |-> "file", action |-> WaitStateOf[a]]
                /\ a = "img2pdf" => u \in DOMAIN IMG_BUCKET' /\ IMG_BUCKET'[u] = <<>>
                /\ a = "mergepdf" => u \in DOMAIN MERGE_BUCKET' /\ MERGE_BUCKET'[u] = <<>>
       /\ \A u \in Users, a \in DlActions :
             (last'.u = u /\ last'.ev = "dl:" \o a /\ dl_actions(u, a))
             => get_state(u)' = [menu |-> "dl", action |-> WaitStateOf[a]]]_vars

\* img2pdf was selected again while a done handler still holds the images of
\* the round before
C20_Witness ==
    /\ last.ev = "file:img2pdf" /\ last.res = "ok"
    /\ last.u \in DOMAIN IMG_BUCKET /\ IMG_BUCKET[last.u] = <<>>
    /\ \E t \in Running : t.u = last.u /\ t.flow = "img_done" /\ Len(t.items) >= 1

(***************************************************************************)
(* The collection flows on their own: documents that share a file name     *)
(***************************************************************************)
\* two different PDFs and two different images sent under the same file name
\* (local_path = wdir / safe_filename(filename) depends on the name alone)
CollectDocs == {[name |-> S("a.pdf"), size |-> 1, content |-> Plain("A")],
                [name |-> S("a.pdf"), size |-> 1, content |-> Plain("A2")],
                [name |-> S("b.pdf"), size |-> 1, content |-> Plain("B")],
                [name |-> S("i.png"), size |-> 0, content |-> Plain("I")],
                [name |-> S("i.png"), size |-> 0, content |-> Plain("I2")]}

CollectMsgs == {[kind |-> "doc", name |-> d.name, size |-> d.size,
                 content |-> d.content] : d \in CollectDocs}

NextCollect ==
    \/ \E u \in Users, a \in {"img2pdf", "mergepdf"} : file_actions(u, a)
    \/ \E u \in Users, cmd \in Controls : merge_controls(u, cmd)
    \/ \E u \in Users, cmd \in Controls : imgpdf_controls(u, cmd)
    \/ \E u \in Users, msg \in CollectMsgs : hm_document(u, msg)
    \/ \E t \in Running : download_telegram_file(t)
    \/ \E t \in Running : merge_done_op(t)
    \/ \E t \in Running : merge_done_send(t)
    \/ \E t \in Running : imgpdf_done_op(t)
    \/ \E t \in Running : imgpdf_done_send(t)

SpecCollect == Init /\ [][NextCollect]_vars

\* the documents acknowledged for the list the done handler t works on
AcceptedFor(t) ==
    Get(IF t.flow = "merge_done" THEN accepted.merge ELSE accepted.img, t.u, <<>>)

\* C14: when the operation of an accepted done succeeds, its output has one
\* unit per document accepted since the buffer was last emptied, in the order
\* received: the merged PDF is the concatenation of the accepted PDFs and N
\* accepted images give N pages in input order.
C14_OutputIsAcceptedInOrder ==
    [][\A t \in Running :
          (/\ t.flow \in {"merge_done", "img_done"} /\ t.pc = "op" /\ t.alias
           /\ tasks' = Move(t, [t EXCEPT !.pc = "send"]))
          => last'.pages = AcceptedFor(t)]_vars

(***************************************************************************)
(* The zip and unzip flows on their own                                    *)
(***************************************************************************)
\* a file, and the archives the zip flow sends for a.pdf and for b.pdf
ZipDocs == {[name |-> S("a.pdf"), size |-> 1, content |-> Plain("A")],
            [name |-> S("a.zip"), size |-> 1,
             content |-> Archive([a \in {<<S("a.pdf")>>} |-> Plain("A")])],
            [name |-> S("b.zip"), size |-> 1,
             content |-> Archive([a \in {<<S("b.pdf")>>} |-> Plain("B")])]}

ZipMsgs == {[kind |-> "doc", name |-> d.name, size |-> d.size,
             content |-> d.content] : d \in ZipDocs}

NextZip ==
    \/ \E u \in Users, a \in {"zip", "unzip"} : file_actions(u, a)
    \/ \E u \in Users, msg \in ZipMsgs : hm_document(u, msg)
    \/ \E t \in Running : download_telegram_file(t)
    \/ \E t \in Running : file_op(t)
    \/ \E t \in Running : file_send(t)

SpecZip == Init /\ [][NextZip]_vars

\* the file set extracted from an archive made of one directory, without the
\* directory level: relative path -> content
Unnested(archive) ==
    [r \in {Tail(a) : a \in DOMAIN archive.members} |->
        archive.members[CHOOSE a \in DOMAIN archive.members : Tail(a) = r]]

\* C15: when the unzip flow has extracted a received archive and zipped the
\* extraction directory again, the file set in the final archive is, per file
\* name and content and without the directory level, the file set of the
\* received archive.
C15_RezipKeepsFileSet ==
    [][\A t \in Running :
          (/\ t.flow = "unzip" /\ t.pc = "op2"
           /\ tasks' = Move(t, [t EXCEPT !.pc = "send"]))
          => Unnested(last'.archive) = t.content.members]_vars

(***************************************************************************)
(* utils.safe_filename on its own: applied to a name, and to its result    *)
(***************************************************************************)
Rep(c, n) == [k \in 1..n |-> c]

\* the ends of the names: whitespace, illegal and control characters
NameTails == {<<>>, <<"b">>, <<" ", "b">>, <<" ", " ", "b">>, <<"\t", "b">>,
              <<"b", " ">>, <<NBSP, "b">>, <<NEL, " ", "b">>, <<"\n", "b">>,
              <<"/", "\\">>, <<"<", ">", ":", "\"">>, <<"|", "?", "*">>,
              <<NUL, "b">>, <<VT, FS, "b">>, <<"b", DEL>>}

\* names shorter than, as long as and longer than the 180 characters kept
NameInputs == {Rep("a", n) \o tl : n \in {0, 1} \cup ((MaxNameLen - 4)..(MaxNameLen + 1)),
                                   tl \in NameTails}

InitName ==
    /\ USER_STATE = EmptyDict /\ USER_PROXY = EmptyDict
    /\ MERGE_BUCKET = EmptyDict /\ IMG_BUCKET = EmptyDict
    /\ tasks = EmptyBag /\ files = {} /\ downloaded = {} /\ nevents = 0
    /\ disk = EmptyDict /\ accepted = [merge |-> EmptyDict, img |-> EmptyDict]
    /\ environ = {}
    /\ \E x \in NameInputs : last = [u |-> 0, ev |-> "name", res |-> x]

\* safe_filename(name), of a name or of an earlier result
apply_safe_filename ==
    /\ last' = [u |-> 0, ev |-> "safe_filename", res |-> safe_filename(last.res)]
    /\ UNCHANGED <<maps, tasks, files, downloaded, nevents, disk, accepted, environ>>

NextName == apply_safe_filename

SpecName == InitName /\ [][NextName]_vars

\* C16: safe_filename is idempotent: applied to one of its results it returns
\* that result.
C16_SafeFilenameIdempotent ==
    last.ev = "safe_filename" => safe_filename(last.res) = last.res

\* the control characters: U+0000..U+001F, U+007F and U+0080..U+009F
ControlChars == {"\n", "\t", "\r", "\f", NUL, VT, FS, DEL, NEL}

\* C17: a result of safe_filename contains none of the characters
\* < > : " / \ | ? * and no control character, and has at most 180 characters.
C17_SafeFilenameClean ==
    last.ev = "safe_filename"
    => /\ \A k \in 1..Len(last.res) :
             last.res[k] \notin {"<", ">", ":", "\"", "/", "\\", "|", "?", "*"}
                                \cup ControlChars
       /\ Len(last.res) <= 180

(***************************************************************************)
(* Control events, input validation and the proxy                          *)
(***************************************************************************)
\* C21: a clear control event leaves the user's corresponding buffer present
\* and empty, and leaves the session state of every user as it is.
C21_ClearEmptiesBuffer ==
    [][\A u \in Users :
          /\ (last'.u = u /\ last'.ev = "merge:clear" /\ merge_controls(u, "clear"))
             => /\ u \in DOMAIN MERGE_BUCKET' /\ MERGE_BUCKET'[u] = <<>>
                /\ USER_STATE' = USER_STATE
          /\ (last'.u = u /\ last'.ev = "imgpdf:clear" /\ imgpdf_controls(u, "clear"))
             => /\ u \in DOMAIN IMG_BUCKET' /\ IMG_BUCKET'[u] = <<>>
                /\ USER_STATE' = USER_STATE]_vars

\* clear in merge-collect after a PDF of the user was collected
C21_Witness ==
    /\ last.ev = "merge:clear" /\ last.res = "ok"
    /\ get_state(last.u).action = "merge_collect"
    /\ last.u \in DOMAIN MERGE_BUCKET /\ MERGE_BUCKET[last.u] = <<>>
    /\ \E p \in downloaded : p[1] = last.u

\* C22: a cancel control event removes the user's corresponding buffer and
\* sets the session to {menu: file, action: none}; no handler is left
\* suspended by it, so no operation is started.
C22_CancelDiscardsBuffer ==
    [][\A u \in Users :
          /\ (last'.u = u /\ last'.ev = "merge:cancel" /\ merge_controls(u, "cancel"))
             => /\ u \notin DOMAIN MERGE_BUCKET'
                /\ get_state(u)' = [menu |-> "file", action |-> None]
                /\ BagCardinality(tasks') = BagCardinality(tasks)
          /\ (last'.u = u /\ last'.ev = "imgpdf:cancel" /\ imgpdf_controls(u, "cancel"))
             => /\ u \notin DOMAIN IMG_BUCKET'
                /\ get_state(u)' = [menu |-> "file", action |-> None]
                /\ BagCardinality(tasks') = BagCardinality(tasks)]_vars

\* cancel after an image of the user was collected
C22_Witness ==
    /\ last.ev = "imgpdf:cancel" /\ last.res = "ok"
    /\ last.u \notin DOMAIN IMG_BUCKET
    /\ get_state(last.u) = [menu |-> "file", action |-> None]
    /\ \E p \in downloaded : p[1] = last.u /\ p[3] = S("i.png")

(***************************************************************************)
(* app.py, the variant with restricted mode: the collect controls          *)
(***************************************************************************)
\* FREE_MODE = os.getenv("FREE_MODE", "1").strip() == "1": restricted mode,
\* on unless the environment turns it off
FREE_MODE == TRUE

\* the name of the k-th document of a collection: 01.pdf, 02.pdf, ...
Digit == <<"0", "1", "2", "3", "4", "5", "6", "7", "8", "9">>
AppName(k, ext) == <<Digit[(k \div 10) + 1], Digit[(k % 10) + 1]>> \o ext

\* the list a collection holds after n documents were collected for user u
AppBuffer(u, n, ext) == [k \in 1..n |-> work_path(u, AppName(k, ext))]

\* the session of a user who selected file:mergepdf or file:img2pdf and for
\* whom n documents were collected since (none, too few, enough, as many as
\* the cap, one more); the other users did nothing yet
InitApp ==
    /\ \E u \in Users, sel \in {"merge_collect", "img2pdf_collect"} :
       \E n \in IF sel = "merge_collect" THEN {0, 1, 2, 10, 11} ELSE {0, 1, 20, 21} :
          LET ext == IF sel = "merge_collect" THEN S(".pdf") ELSE S(".png")
              buf == AppBuffer(u, n, ext)
              got == [k \in 1..n |-> Plain(AppName(k, ext))]
              paths == {buf[k] : k \in 1..n}
          IN  /\ MERGE_BUCKET = IF sel = "merge_collect" THEN Put(EmptyDict, u, buf)
                                ELSE EmptyDict
              /\ IMG_BUCKET = IF sel = "img2pdf_collect" THEN Put(EmptyDict, u, buf)
                              ELSE EmptyDict
              /\ USER_STATE = Put(EmptyDict, u, [menu |-> "file", action |-> sel])
              /\ files = paths
              /\ downloaded = paths
              /\ disk = [p \in paths |-> Plain(p[3])]
              /\ accepted = [merge |-> IF sel = "merge_collect" THEN Put(EmptyDict, u, got)
                                       ELSE EmptyDict,
                             img |-> IF sel = "img2pdf_collect" THEN Put(EmptyDict, u, got)
                                     ELSE EmptyDict]
    /\ USER_PROXY = EmptyDict
    /\ tasks = EmptyBag
    /\ nevents = 0
    /\ last = Step(0, "init", "none")
    /\ environ = {}

\* app.file_actions
app_file_actions(u, action) ==
    /\ CanDeliver
    /\ action \in {"zip", "unzip", "rename", "text2pdf", "img2pdf", "mergepdf"}
    /\ USER_STATE' = set_state(u, "file", file_wait_state(action), EmptyDict)
    /\ MERGE_BUCKET' = IF action = "mergepdf" THEN Put(MERGE_BUCKET, u, <<>>) ELSE MERGE_BUCKET
    /\ IMG_BUCKET' = IF action = "img2pdf" THEN Put(IMG_BUCKET, u, <<>>) ELSE IMG_BUCKET
    /\ accepted' = [merge |-> IF action = "mergepdf" THEN Put(accepted.merge, u, <<>>)
                              ELSE accepted.merge,
                    img |-> IF action = "img2pdf" THEN Put(accepted.img, u, <<>>)
                            ELSE accepted.img]
    /\ Event(u, "file:" \o action, "ok")
    /\ UNCHANGED <<USER_PROXY, tasks, files, downloaded, disk, environ>>

\* a faulty variant of app_merge_over_cap: an eleventh PDF is let through
app_merge_over_cap_mutant(pdfs) == FREE_MODE /\ Len(pdfs) > 11

\* app.merge_controls, done: FREE_MODE and len(pdfs) > 10
app_merge_over_cap(pdfs) == FREE_MODE /\ Len(pdfs) > 10

\* app.imgpdf_controls, done: FREE_MODE and len(imgs) > 20
app_imgpdf_over_cap(imgs) == FREE_MODE /\ Len(imgs) > 20

\* app.merge_controls, up to to_thread(merge_pdfs, pdfs, out)
app_merge_controls(u, cmd) ==
    /\ CanDeliver
    /\ cmd \in {"clear", "cancel", "done"}
    /\ IF cmd = "clear"
       THEN /\ MERGE_BUCKET' = Put(MERGE_BUCKET, u, <<>>)
            /\ accepted' = [accepted EXCEPT !.merge = Put(@, u, <<>>)]
            /\ Event(u, "merge:clear", "ok")
            /\ UNCHANGED <<USER_STATE, tasks>>
       ELSE IF cmd = "cancel"
       THEN /\ MERGE_BUCKET' = Pop(MERGE_BUCKET, u)
            /\ accepted' = [accepted EXCEPT !.merge = Pop(@, u)]
            /\ USER_STATE' = set_state(u, "file", None, EmptyDict)
            /\ Event(u, "merge:cancel", "ok")
            /\ UNCHANGED tasks
       ELSE LET pdfs == Get(MERGE_BUCKET, u, <<>>)
            IN  IF Len(pdfs) < 2
                THEN /\ Event(u, "merge:done", "rejected")
                     /\ UNCHANGED <<USER_STATE, MERGE_BUCKET, tasks, accepted, environ>>
                ELSE IF app_merge_over_cap(pdfs)
                THEN /\ Event(u, "merge:done", "over_cap")
                     /\ UNCHANGED <<USER_STATE, MERGE_BUCKET, tasks, accepted, environ>>
                ELSE /\ HasFree
                     /\ tasks' = Spawn([u |-> u, flow |-> "merge_done", pc |-> "op",
                                        items |-> pdfs])
                     /\ Event(u, "merge:done", "accepted")
                     /\ UNCHANGED <<USER_STATE, MERGE_BUCKET, accepted, environ>>
    /\ UNCHANGED <<USER_PROXY, IMG_BUCKET, files, downloaded, disk, environ>>

\* app.imgpdf_controls, up to to_thread(images_to_pdf, imgs, out)
app_imgpdf_controls(u, cmd) ==
    /\ CanDeliver
    /\ cmd \in {"clear", "cancel", "done"}
    /\ IF cmd = "clear"
       THEN /\ IMG_BUCKET' = Put(IMG_BUCKET, u, <<>>)
            /\ accepted' = [accepted EXCEPT !.img = Put(@, u, <<>>)]
            /\ Event(u, "imgpdf:clear", "ok")
            /\ UNCHANGED <<USER_STATE, tasks>>
       ELSE IF cmd = "cancel"
       THEN /\ IMG_BUCKET' = Pop(IMG_BUCKET, u)
            /\ accepted' = [accepted EXCEPT !.img = Pop(@, u)]
            /\ USER_STATE' = set_state(u, "file", None, EmptyDict)
            /\ Event(u, "imgpdf:cancel", "ok")
            /\ UNCHANGED tasks
       ELSE LET imgs == Get(IMG_BUCKET, u, <<>>)
            IN  IF Len(imgs) < 1
                THEN /\ Event(u, "imgpdf:done", "rejected")
                     /\ UNCHANGED <<USER_STATE, IMG_BUCKET, tasks, accepted, environ>>
                ELSE IF app_imgpdf_over_cap(imgs)
                THEN /\ Event(u, "imgpdf:done", "over_cap")
                     /\ UNCHANGED <<USER_STATE, IMG_BUCKET, tasks, accepted, environ>>
                ELSE /\ HasFree
                     /\ tasks' = Spawn([u |-> u, flow |-> "img_done", pc |-> "op",
                                        items |-> imgs])
                     /\ Event(u, "imgpdf:done", "accepted")
                     /\ UNCHANGED <<USER_STATE, IMG_BUCKET, accepted, environ>>
    /\ UNCHANGED <<USER_PROXY, MERGE_BUCKET, files, downloaded, disk, environ>>

\* await to_thread(merge_pdfs, ...) or to_thread(images_to_pdf, ...): the
\* output is written, or the exception leaves the handler (no finally here)
app_done_op(t) ==
    /\ t.flow \in {"merge_done", "img_done"} /\ t.pc = "op"
    /\ LET out == output_path(t.u, IF t.flow = "merge_done" THEN S("merged.pdf")
                                   ELSE S("images.pdf"))
       IN  IF \A k \in 1..Len(t.items) : t.items[k] \in files
           THEN /\ files' = files \cup {out}
                /\ tasks' = Move(t, [t EXCEPT !.pc = "send"])
                /\ last' = DoneStep(t, merge_pdfs(t.items))
           ELSE /\ tasks' = Finish(t)
                /\ last' = Step(t.u, t.flow, "failed")
                /\ UNCHANGED files
    /\ UNCHANGED <<maps, downloaded, disk, accepted, environ, nevents>>

\* await send_file(...); BUCKET.pop(user_id, None); set_state(user_id, "file", None)
app_done_send(t) ==
    /\ t.flow \in {"merge_done", "img_done"} /\ t.pc = "send"
    /\ IF t.flow = "merge_done"
       THEN /\ MERGE_BUCKET' = Pop(MERGE_BUCKET, t.u)
            /\ accepted' = [accepted EXCEPT !.merge = Pop(@, t.u)]
            /\ UNCHANGED IMG_BUCKET
       ELSE /\ IMG_BUCKET' = Pop(IMG_BUCKET, t.u)
            /\ accepted' = [accepted EXCEPT !.img = Pop(@, t.u)]
            /\ UNCHANGED MERGE_BUCKET
    /\ USER_STATE' = set_state(t.u, "file", None, EmptyDict)
    /\ tasks' = Finish(t)
    /\ last' = Step(t.u, t.flow, "ok")
    /\ UNCHANGED <<USER_PROXY, files, downloaded, disk, environ, nevents>>

NextApp ==
    \/ \E u \in Users, a \in {"img2pdf", "mergepdf"} : app_file_actions(u, a)
    \/ \E u \in Users, c \in Controls : app_merge_controls(u, c)
    \/ \E u \in Users, c \in Controls : app_imgpdf_controls(u, c)
    \/ \E t \in Running : app_done_op(t)
    \/ \E t \in Running : app_done_send(t)

SpecApp == InitApp /\ [][NextApp]_vars

\* C23: in restricted mode a done event with more buffered items than the cap
\* (more than 10 PDFs to merge, more than 20 images) is rejected with the
\* guidance message: no operation is started, and the session state and the
\* buffers stay as they were
C23_OverCapRejected ==
    [][\A u \in Users :
          /\ (/\ last'.u = u /\ last'.ev = "merge:done" /\ FREE_MODE
              /\ Len(Get(MERGE_BUCKET, u, <<>>)) > 10
              /\ app_merge_controls(u, "done"))
             => /\ last'.res = "over_cap"
                /\ UNCHANGED <<USER_STATE, MERGE_BUCKET, IMG_BUCKET, tasks>>
          /\ (/\ last'.u = u /\ last'.ev = "imgpdf:done" /\ FREE_MODE
              /\ Len(Get(IMG_BUCKET, u, <<>>)) > 20
              /\ app_imgpdf_controls(u, "done"))
             => /\ last'.res = "over_cap"
                /\ UNCHANGED <<USER_STATE, MERGE_BUCKET, IMG_BUCKET, tasks>>]_vars

\* C23 happens: a done event was rejected for a list of eleven PDFs, which
\* is still buffered in the collecting session
C23_Witness ==
    /\ last.ev = "merge:done" /\ last.res = "over_cap"
    /\ get_state(last.u).action = "merge_collect"
    /\ Len(Get(MERGE_BUCKET, last.u, <<>>)) = 11

(***************************************************************************)
(* The text-to-PDF wait-state with texts around the character limit        *)
(***************************************************************************)
\* texts: empty, whitespace only, short, as long as the limit, one longer
TextMsgs ==
    {[kind |-> "text", text |-> t] :
        t \in {<<>>, <<" ">>, <<"\n", "\t", " ">>, <<" ", "a", " ">>,
               Rep("a", max_text_len), Rep("a", max_text_len + 1)}}

NextText ==
    \/ \E u \in Users : file_actions(u, "text2pdf")
    \/ \E u \in Users, msg \in TextMsgs : hm_text2pdf(u, msg)
    \/ \E t \in Running : file_op(t)
    \/ \E t \in Running : file_send(t)

SpecText == Init /\ [][NextText]_vars

\* text is empty or holds whitespace only
Blank(txt) == \A k \in 1..Len(txt) : txt[k] \in Whitespace

\* C24: in the text-to-PDF wait-state an empty or whitespace-only input and
\* an input longer than the character limit are rejected without transition:
\* the action stays text2pdf_wait_text and no operation is started
C24_BadTextRejected ==
    [][\A u \in Users, msg \in TextMsgs :
          (/\ last'.u = u /\ last'.ev = "text2pdf"
           /\ Blank(msg.text) \/ Len(msg.text) > max_text_len
           /\ hm_text2pdf(u, msg))
          => /\ last'.res \in {"rejected", "too_long"}
             /\ get_state(u)'.action = "text2pdf_wait_text"
             /\ UNCHANGED <<USER_STATE, tasks, files>>]_vars

\* C24 happens: a text one character above the limit was rejected and its
\* user is still asked for a text
C24_Witness ==
    /\ last.ev = "text2pdf" /\ last.res = "too_long"
    /\ get_state(last.u).action = "text2pdf_wait_text"
    /\ \A t \in Running : t.u # last.u

\* C25: a document offered during a collection whose kind, inferred from the
\* extension of its name, is not the expected one (PDF for merge, image for
\* images-to-PDF) is rejected for that message only: nothing is downloaded,
\* the buffers are unchanged and the collection stays active
C25_WrongKindRejected ==
    [][\A u \in Users, msg \in {m \in Msgs : HasDoc(m)} :
          (/\ last'.u = u /\ last'.ev \in {"merge_add", "img_add"}
           /\ \/ /\ get_state(u).action = "merge_collect"
                 /\ detect_content_type_from_name(FileName(msg)) # "pdf"
              \/ /\ get_state(u).action = "img2pdf_collect"
                 /\ detect_content_type_from_name(FileName(msg)) # "image"
           /\ hm_document(u, msg))
          => /\ last'.res = "rejected"
             /\ UNCHANGED <<USER_STATE, MERGE_BUCKET, IMG_BUCKET, tasks, files,
                            downloaded, disk, environ>>]_vars

\* C25 happens: a document that is no PDF was rejected in a merge collection
\* which already holds a PDF and is still active
C25_Witness ==
    /\ last.ev = "merge_add" /\ last.res = "rejected"
    /\ get_state(last.u).action = "merge_collect"
    /\ Len(Get(MERGE_BUCKET, last.u, <<>>)) = 1

\* the wait-states that take a text, and the ones that take a document
TextWaitStates == {"proxy_wait", "text2pdf_wait_text", "rename_wait_newname"}
                  \cup DlWaitStates
DocWaitStates == {"zip_wait_file", "unzip_wait_zip", "rename_wait_file",
                  "merge_collect", "img2pdf_collect"}

\* C26: each wait-state accepts exactly one payload kind: in every wait-state
\* an input of the other kind (a document where a text is awaited, a text
\* where a document is awaited) is rejected without any change of the session
\* state, the buffers or the proxy, and without starting an operation
C26_WrongPayloadRejected ==
    [][\A u \in Users, msg \in Msgs :
          (/\ last'.u = u /\ nevents' = nevents + 1
           /\ \/ get_state(u).action \in TextWaitStates /\ msg.kind = "doc"
              \/ get_state(u).action \in DocWaitStates /\ msg.kind = "text"
           /\ handle_message(u, msg))
          => /\ last'.res = "rejected"
             /\ UNCHANGED <<USER_STATE, USER_PROXY, MERGE_BUCKET, IMG_BUCKET, tasks,
                            files, downloaded>>]_vars

\* C26 happens: a document was rejected where the new name of a downloaded
\* file is awaited, and the name is still awaited
C26_Witness ==
    /\ last.ev = "document" /\ last.res = "rejected"
    /\ get_state(last.u).action = "rename_wait_newname"
    /\ "rename_path" \in DOMAIN get_state(last.u)

\* C27: the stored proxy of a user is created (or replaced) only by a proxy
\* value of that user that was accepted, and removed only by their
\* proxy:clear; every other event leaves it unchanged
C27_ProxyChangesOnlyBySetAndClear ==
    [][\A u \in Users :
          user_proxy(u)' # user_proxy(u)
          => /\ last'.u = u
             /\ \/ /\ last'.ev = "proxy_wait" /\ last'.res = "ok"
                   /\ user_proxy(u)' # {}
                \/ /\ last'.ev = "proxy:clear"
                   /\ user_proxy(u)' = {}]_vars

\* C27 happens: a user with a stored proxy restarted and still has it
C27_Witness ==
    /\ last.ev = "start" /\ last.res = "ok"
    /\ last.u \in DOMAIN USER_PROXY
    /\ USER_PROXY[last.u] # <<>>

(***************************************************************************)
(* The download flow of users who stored a proxy earlier, or none          *)
(***************************************************************************)
\* the proxy a user stored: http://p1, http://p2
ProxyOf(u) == S("http://") \o <<"p", Digit[u + 1]>>

\* the users in a subset stored their proxy (proxy:set and an accepted value)
InitDl ==
    /\ \E P \in SUBSET Users : USER_PROXY = [u \in P |-> ProxyOf(u)]
    /\ USER_STATE = EmptyDict
    /\ MERGE_BUCKET = EmptyDict
    /\ IMG_BUCKET = EmptyDict
    /\ tasks = EmptyBag
    /\ files = {}
    /\ downloaded = {}
    /\ nevents = 0
    /\ last = Step(0, "init", "none")
    /\ disk = EmptyDict
    /\ accepted = [merge |-> EmptyDict, img |-> EmptyDict]
    /\ environ = {}

\* a link sent in the download wait-states
DlMsgs == {[kind |-> "text", text |-> S("https://youtu.be/abc123")]}

NextDl ==
    \/ \E u \in Users, a \in DlActions : dl_actions(u, a)
    \/ \E u \in Users, msg \in DlMsgs : hm_dl_link(u, msg)
    \/ \E t \in Running : dl_op(t)
    \/ \E t \in Running : dl_send(t)
    \/ \E t \in Running : dl_reply(t)

SpecDl == InitDl /\ [][NextDl]_vars

\* C28: every retrieval started for a user runs with the proxy that user
\* stored (with none when they stored none), whatever the other users stored
\* and whatever ran before
C28_RetrievalUsesOwnProxy ==
    (last.ev = "dl" /\ "used" \in DOMAIN last) => last.used = last.proxy

(***************************************************************************)
(* features_download.guess_downloader on its own                           *)
(***************************************************************************)
\* URLs: a scheme or none, a host in lower or mixed case, and a rest that
\* may hold the host pattern of another service
UrlInputs ==
    LET prefixes == {S(""), S("https://"), S("HTTPS://") \o S("WWW.")}
        hosts == {S("pixeldrain.com"), S("drive.google.com"), S("mega.nz"), S("youtu.be"),
                  S("youtube.com"), S("example.com"), S("PIXELDRAIN.COM"),
                  S("Drive.Google.Com"), S("MEGA.NZ"), S("YouTu.be")}
        rests == {S(""), S("/file/xyz"), S("/abc123"), S("/file"), S("/?u=mega.nz"),
                  S("/drive.google.com"), S("/pixeldrain.com"), S("/youtu")}
    IN  {p \o h \o r : p \in prefixes, h \in hosts, r \in rests}

InitGuess ==
    /\ USER_STATE = EmptyDict /\ USER_PROXY = EmptyDict
    /\ MERGE_BUCKET = EmptyDict /\ IMG_BUCKET = EmptyDict
    /\ tasks = EmptyBag /\ files = {} /\ downloaded = {} /\ nevents = 0
    /\ disk = EmptyDict /\ accepted = [merge |-> EmptyDict, img |-> EmptyDict]
    /\ environ = {}
    /\ \E x \in UrlInputs : last = [u |-> 0, ev |-> "url", res |-> x]

\* guess_downloader(url)
apply_guess_downloader ==
    /\ last.ev = "url"
    /\ last' = [u |-> 0, ev |-> "guess_downloader", res |-> guess_downloader(last.res),
                url |-> last.res]
    /\ UNCHANGED <<maps, tasks, files, downloaded, nevents, disk, accepted, environ>>

NextGuess == apply_guess_downloader

SpecGuess == InitGuess /\ [][NextGuess]_vars

\* the services in the order they are checked, each with its host patterns
Services == <<[svc |-> "pixeldrain", pats |-> {S("pixeldrain.com")}],
              [svc |-> "gdrive", pats |-> {S("drive.google.com")}],
              [svc |-> "mega", pats |-> {S("mega.nz")}],
              [svc |-> "youtube", pats |-> {S("youtu"), S("youtube.com")}]>>

\* the services a pattern of which occurs in the URL, whatever the case
Hits(url) == {k \in 1..Len(Services) :
                \E p \in Services[k].pats : Contains(Lower(url), p)}

\* C29: guess_downloader returns the first service, in the order pixeldrain,
\* gdrive, mega, youtube, whose host pattern occurs in the URL whatever the
\* case of its letters, and "unknown" when none occurs; https://youtu.be/abc123
\* is youtube, https://mega.nz/file/xyz is mega, https://example.com/file is
\* unknown
C29_ClassifyByFirstPattern ==
    last.ev = "guess_downloader"
    => /\ Hits(last.url) = {} => last.res = "unknown"
       /\ Hits(last.url) # {}
          => \E k \in Hits(last.url) : /\ \A j \in Hits(last.url) : k <= j
                                       /\ last.res = Services[k].svc
       /\ last.url = S("https://youtu.be/abc123") => last.res = "youtube"
       /\ last.url = S("https://mega.nz/file/xyz") => last.res = "mega"
       /\ last.url = S("https://example.com/file") => last.res = "unknown"

\* C29 happens: an upper-case URL that holds the patterns of mega and of
\* gdrive was classified as gdrive
C29_Witness ==
    /\ last.ev = "guess_downloader"
    /\ last.url = S("HTTPS://") \o S("WWW.") \o S("MEGA.NZ") \o S("/drive.google.com")
    /\ last.res = "gdrive"

(***************************************************************************)
(* storage.cleanup_old on its own: the children of the base directory     *)
(***************************************************************************)
\* a child of the base directory: a directory or a file, modified before the
\* cutoff or not, and whether shutil.rmtree fails on it (no permission, a
\* link to a directory); the base directory is missing, or holds some of
\* the children 1, 2 and notes.txt
BaseDirs ==
    LET kinds == [dir : BOOLEAN, old : BOOLEAN, fails : BOOLEAN]
        names == {"1", "2", "notes.txt"}
    IN  {[exists |-> FALSE, children |-> EmptyDict]}
        \cup {[exists |-> TRUE, children |-> c] :
                 c \in UNION {[N -> kinds] : N \in SUBSET names}}

InitSweep ==
    /\ USER_STATE = EmptyDict /\ USER_PROXY = EmptyDict
    /\ MERGE_BUCKET = EmptyDict /\ IMG_BUCKET = EmptyDict
    /\ tasks = EmptyBag /\ files = {} /\ downloaded = {} /\ nevents = 0
    /\ disk = EmptyDict /\ accepted = [merge |-> EmptyDict, img |-> EmptyDict]
    /\ environ = {}
    /\ \E b \in BaseDirs : last = [u |-> 0, ev |-> "base", res |-> b]

\* storage.cleanup_old(base): the children left and the number returned.
\* shutil.rmtree(child, ignore_errors=True) leaves the child where it fails,
\* and deleted += 1 follows it in either case
cleanup_old_base(base) ==
    IF ~base.exists
    THEN [left |-> base.children, deleted |-> 0]
    ELSE LET c == base.children
             swept == {n \in DOMAIN c : c[n].dir /\ c[n].old}
             gone == {n \in swept : ~c[n].fails}
         IN  [left |-> [n \in DOMAIN c \ gone |-> c[n]],
              deleted |-> Cardinality(swept)]

\* cleanup_old(settings.base_dir, older_than_hours=24)
apply_cleanup_old ==
    /\ last.ev = "base"
    /\ last' = [u |-> 0, ev |-> "cleanup_old", res |-> cleanup_old_base(last.res),
                base |-> last.res]
    /\ UNCHANGED <<maps, tasks, files, downloaded, nevents, disk, accepted, environ>>

NextSweep == apply_cleanup_old

SpecSweep == InitSweep /\ [][NextSweep]_vars

\* C30: cleanup_old deletes the child directories of the base that were
\* modified before the cutoff (each one whose deletion does not fail), leaves
\* the newer directories and the children that are no directories as they
\* are, and returns the number of directories it deleted, also when the
\* deletion of one of them fails
C30_SweepDeletesOldAndCounts ==
    last.ev = "cleanup_old"
    => LET c == last.base.children
           left == last.res.left
           gone == DOMAIN c \ DOMAIN left
       IN  /\ \A n \in gone : c[n].dir /\ c[n].old
           /\ \A n \in DOMAIN c : (c[n].dir /\ c[n].old /\ ~c[n].fails) => n \in gone
           /\ \A n \in DOMAIN left : n \in DOMAIN c /\ left[n] = c[n]
           /\ last.res.deleted = Cardinality(gone)

(***************************************************************************)
(* The shape of the session state, the order of the steps of a flow, and   *)
(* what one user's events do to the others                                 *)
(***************************************************************************)
\* C31: in every reachable session state the pending rename source path is
\* stored exactly when the action is rename_wait_newname, and the state holds
\* no field other than menu, action and that path: every set_state replaces
\* the whole session
C31_RenamePathIffWaitNewname ==
    \A u \in DOMAIN USER_STATE :
        /\ "rename_path" \in DOMAIN USER_STATE[u]
           <=> USER_STATE[u].action = "rename_wait_newname"
        /\ DOMAIN USER_STATE[u] \subseteq {"menu", "action", "rename_path"}

\* C31 happens: a rename was carried out for a stored path, and the session
\* that follows holds no path
C31_Witness ==
    /\ last.ev = "rename_new" /\ last.res = "ok"
    /\ DOMAIN USER_STATE[last.u] = {"menu", "action"}
    /\ USER_STATE[last.u].action = None

\* C32: in every flow that invokes an operation the handler resets the
\* session state and removes the buffer only after the operation has run and
\* its result was delivered ("ok") or its error was reported to the user (the
\* reply of the download flow); no step of such a flow resets the action or
\* removes the buffer earlier or without the one or the other
C32_ResetOnlyAfterDeliveryOrReport ==
    [][\A u \in Users :
          (/\ nevents' = nevents /\ last'.u = u
           /\ last'.ev \in {"zip", "unzip", "text2pdf", "rename_new", "merge_done",
                           "img_done", "dl"}
           /\ \/ get_state(u).action # None /\ get_state(u)'.action = None
              \/ u \in DOMAIN MERGE_BUCKET /\ u \notin DOMAIN MERGE_BUCKET'
              \/ u \in DOMAIN IMG_BUCKET /\ u \notin DOMAIN IMG_BUCKET')
          => \/ last'.res = "ok"
             \/ last'.ev = "dl" /\ last'.res = "failed"]_vars

\* C33: in every reachable session state the action belongs to the menu: the
\* file wait-states and the collection states occur only with menu file, the
\* download wait-states only with menu dl, proxy_wait only with menu proxy,
\* and menu main always has action none
C33_ActionBelongsToMenu ==
    \A u \in Users :
        LET st == get_state(u)
            fileActions == {"zip_wait_file", "unzip_wait_zip", "rename_wait_file",
                            "rename_wait_newname", "text2pdf_wait_text",
                            "img2pdf_collect", "merge_collect"}
        IN  /\ st.action \in fileActions => st.menu = "file"
            /\ st.action \in DlWaitStates => st.menu = "dl"
            /\ st.action = "proxy_wait" => st.menu = "proxy"
            /\ st.menu = "main" => st.action = None
            /\ st.action \in fileActions \cup DlWaitStates \cup {"proxy_wait", None}
            /\ st.menu \in {"main", "file", "dl", "proxy"}

\* C33 happens: a user who was collecting PDFs selected a download action
\* and is now in a download wait-state of menu dl
C33_Witness ==
    /\ last.ev = "dl:mega"
    /\ get_state(last.u) = [menu |-> "dl", action |-> "dl_wait_link_mega"]
    /\ last.u \in DOMAIN MERGE_BUCKET

\* C34: a step of a handler of user A, the event or a later step of its
\* flow, never changes the session state, the proxy, the merge buffer or the
\* image buffer of another user B: each of the four maps keeps B's entry, or
\* keeps having none
C34_OtherUsersUntouched ==
    [][\A b \in Users :
          last'.u # b
          => /\ b \in DOMAIN USER_STATE' <=> b \in DOMAIN USER_STATE
             /\ b \in DOMAIN USER_STATE => USER_STATE'[b] = USER_STATE[b]
             /\ b \in DOMAIN USER_PROXY' <=> b \in DOMAIN USER_PROXY
             /\ b \in DOMAIN USER_PROXY => USER_PROXY'[b] = USER_PROXY[b]
             /\ b \in DOMAIN MERGE_BUCKET' <=> b \in DOMAIN MERGE_BUCKET
             /\ b \in DOMAIN MERGE_BUCKET => MERGE_BUCKET'[b] = MERGE_BUCKET[b]
             /\ b \in DOMAIN IMG_BUCKET' <=> b \in DOMAIN IMG_BUCKET
             /\ b \in DOMAIN IMG_BUCKET => IMG_BUCKET'[b] = IMG_BUCKET[b]]_vars

\* C34 happens: a user cancelled their own merge while another user has a
\* PDF buffered and is still collecting
C34_Witness ==
    /\ last.ev = "merge:cancel"
    /\ \E b \in Users \ {last.u} :
          /\ b \in DOMAIN MERGE_BUCKET /\ Len(MERGE_BUCKET[b]) = 1
          /\ get_state(b).action = "merge_collect"

\* C35: the archive an unzip flow returns holds only entries of the archive
\* submitted in that flow, each with the content it has there, whatever the
\* same user had extracted in earlier unzip flows that are over (no other
\* handler is suspended when the archive is written)
C35_RezipHoldsOnlySubmittedEntries ==
    [][\A t \in Running :
          (/\ t.flow = "unzip" /\ t.pc = "op2"
           /\ tasks = SetToBag({t})
           /\ tasks' = Move(t, [t EXCEPT !.pc = "send"]))
          => \A a \in DOMAIN last'.archive.members :
                /\ Tail(a) \in DOMAIN t.content.members
                /\ last'.archive.members[a] = t.content.members[Tail(a)]]_vars

\* C36: a document acknowledged as added to the merge or image buffer of a
\* user leaves that buffer only by a clear, a cancel or a new selection of the
\* collection action, or at the end of a done handler of that user whose
\* operation had the document in its input (an entry of the list the handler
\* holds that was there when the operation ran, or a path of its own list
\* when the buffer holds a newer list); so a document that arrives while an
\* earlier done is still being processed is kept for the next operation.
C36_AcknowledgedReachesNextOperation ==
    [][\A u \in Users :
          /\ \A k \in 1..Len(Get(MERGE_BUCKET, u, <<>>)) :
                (\A j \in 1..Len(Get(MERGE_BUCKET', u, <<>>)) :
                     MERGE_BUCKET'[u][j] # MERGE_BUCKET[u][k])
                => \/ /\ last'.u = u
                      /\ last'.ev \in {"merge:clear", "merge:cancel", "file:mergepdf"}
                   \/ \E t \in Running :
                         /\ t.u = u /\ t.flow = "merge_done"
                         /\ tasks' = Unalias(Finish(t), u, "merge_done")
                         /\ IF t.alias THEN k <= Len(t.items)
                            ELSE \E i \in 1..Len(t.items) :
                                    t.items[i] = MERGE_BUCKET[u][k]
          /\ \A k \in 1..Len(Get(IMG_BUCKET, u, <<>>)) :
                (\A j \in 1..Len(Get(IMG_BUCKET', u, <<>>)) :
                     IMG_BUCKET'[u][j] # IMG_BUCKET[u][k])
                => \/ /\ last'.u = u
                      /\ last'.ev \in {"imgpdf:clear", "imgpdf:cancel", "file:img2pdf"}
                   \/ \E t \in Running :
                         /\ t.u = u /\ t.flow = "img_done"
                         /\ tasks' = Unalias(Finish(t), u, "img_done")
                         /\ IF t.alias THEN k <= Len(t.items)
                            ELSE \E i \in 1..Len(t.items) :
                                    t.items[i] = IMG_BUCKET[u][k]]_vars

====
